---- MODULE Spec2Model ----
(***************************************************************************)
(* Per-user OAuth2 authorization-code lifecycle of the Schwab and Tasty    *)
(* market-info Lambda handlers: signed state, code exchange, refresh,      *)
(* expiry-aware token cache in the SSM parameter store.                    *)
(*                                                                         *)
(* Strings the code inspects character by character (the state token, its *)
(* JSON payload, its base64url encoding) are sequences of one-character    *)
(* strings.  Parameter names and error messages are TLA+ strings.          *)
(***************************************************************************)
EXTENDS Integers, Sequences, FiniteSets, TLC

(* ---------------------------------------------------------------------- *)
(* State of the deployed system                                            *)
(* ---------------------------------------------------------------------- *)

VARIABLES
  provider,          \* which integration this behaviour follows (they share no state)
  now,               \* Date.now(), in seconds
  ssmSecret,         \* parameter store: the signing secret (Schwab app-secret, Tasty session-secret)
  ssmTokens,         \* parameter store: parameter name -> Value (JSON text) of the token records
  cachedCredentials, \* per Lambda execution environment: the module-level credential cache
  req,               \* per execution environment: the invocation in progress
  last,              \* the invocation that has just responded (an idle record otherwise)
  issued,            \* state tokens handed to browsers by the authorize routes
  accepted,          \* history: state tokens under which a callback has exchanged a code
  nextTok,           \* provider: number of the next token it issues
  mintedFor,         \* history: <<access token, userSub whose exchange/refresh obtained it>>
  completed,         \* history: users whose Tasty authorization a callback completed
  sg,                \* the state signer applied to chosen inputs (SpecSigner)
  gs,                \* Token Cache Get applied to chosen store contents (SpecStore)
  up,                \* the UserPreference records of one user and the calls on them (SpecPrefs)
  cr,                \* the credential cache of one process over a failing parameter store (SpecCreds)
  qw                 \* one wait of getMarketInfo for a Tasty quote (SpecQuote)

vars == << provider, now, ssmSecret, ssmTokens, cachedCredentials, req, last, issued, accepted,
           nextTok, mintedFor, completed, sg, gs, up, cr, qw >>

(* ---------------------------------------------------------------------- *)
(* Characters and bytes (printable ASCII; UTF-8 of these is one byte each) *)
(* ---------------------------------------------------------------------- *)

AsciiPrintable ==
  << " ", "!", "\"", "#", "$", "%", "&", "'", "(", ")", "*", "+", ",", "-", ".", "/",
     "0", "1", "2", "3", "4", "5", "6", "7", "8", "9", ":", ";", "<", "=", ">", "?",
     "@", "A", "B", "C", "D", "E", "F", "G", "H", "I", "J", "K", "L", "M", "N", "O",
     "P", "Q", "R", "S", "T", "U", "V", "W", "X", "Y", "Z", "[", "\\", "]", "^", "_",
     "GRAVE", "a", "b", "c", "d", "e", "f", "g", "h", "i", "j", "k", "l", "m", "n", "o",
     "p", "q", "r", "s", "t", "u", "v", "w", "x", "y", "z", "{", "|", "}", "~" >>

CharSet == { AsciiPrintable[i] : i \in 1..Len(AsciiPrintable) }

\* byte value of a character (space is 32); "GRAVE" stands for the backquote,
\* byte 96, which the module's lexer does not take in a string
Code == [ c \in CharSet |-> 31 + (CHOOSE i \in 1..Len(AsciiPrintable) : AsciiPrintable[i] = c) ]

\* a byte outside printable ASCII decodes to a character no JSON text accepts
BadChar == "<?>"

Chr(n) == IF n >= 32 /\ n <= 126 THEN AsciiPrintable[n - 31] ELSE BadChar

Base64Alphabet ==
  << "A", "B", "C", "D", "E", "F", "G", "H", "I", "J", "K", "L", "M", "N", "O", "P",
     "Q", "R", "S", "T", "U", "V", "W", "X", "Y", "Z", "a", "b", "c", "d", "e", "f",
     "g", "h", "i", "j", "k", "l", "m", "n", "o", "p", "q", "r", "s", "t", "u", "v",
     "w", "x", "y", "z", "0", "1", "2", "3", "4", "5", "6", "7", "8", "9", "+", "/" >>

Base64Chars == { Base64Alphabet[i] : i \in 1..64 }

Sextet == [ c \in Base64Chars |-> (CHOOSE i \in 1..64 : Base64Alphabet[i] = c) - 1 ]

HexDigits ==
  << "0", "1", "2", "3", "4", "5", "6", "7", "8", "9", "a", "b", "c", "d", "e", "f" >>

\* value.replace(/x/g, y) for a one-character pattern
ReplaceChar(s, from, to) == [ i \in 1..Len(s) |-> IF s[i] = from THEN to ELSE s[i] ]

\* value.lastIndexOf(c), 1-based; 0 where the code sees -1
LastIndexOf(s, c) ==
  LET hits == { i \in 1..Len(s) : s[i] = c }
  IN IF hits = {} THEN 0 ELSE CHOOSE i \in hits : \A j \in hits : j <= i

RECURSIVE Base64Encode(_)
\* Buffer.from(value, "utf8").toString("base64")
Base64Encode(s) ==
  IF Len(s) = 0 THEN << >>
  ELSE IF Len(s) = 1 THEN
    LET b1 == Code[s[1]] IN
      << Base64Alphabet[(b1 \div 4) + 1], Base64Alphabet[((b1 % 4) * 16) + 1], "=", "=" >>
  ELSE IF Len(s) = 2 THEN
    LET b1 == Code[s[1]]
        b2 == Code[s[2]] IN
      << Base64Alphabet[(b1 \div 4) + 1],
         Base64Alphabet[((b1 % 4) * 16 + (b2 \div 16)) + 1],
         Base64Alphabet[((b2 % 16) * 4) + 1], "=" >>
  ELSE
    LET b1 == Code[s[1]]
        b2 == Code[s[2]]
        b3 == Code[s[3]] IN
      << Base64Alphabet[(b1 \div 4) + 1],
         Base64Alphabet[((b1 % 4) * 16 + (b2 \div 16)) + 1],
         Base64Alphabet[((b2 % 16) * 4 + (b3 \div 64)) + 1],
         Base64Alphabet[(b3 % 64) + 1] >> \o Base64Encode(SubSeq(s, 4, Len(s)))

RECURSIVE StripTrailing(_, _)
\* value.replace(/=+$/g, "")
StripTrailing(s, c) ==
  IF Len(s) > 0 /\ s[Len(s)] = c THEN StripTrailing(SubSeq(s, 1, Len(s) - 1), c) ELSE s

toBase64Url(value) ==
  StripTrailing(ReplaceChar(ReplaceChar(Base64Encode(value), "+", "-"), "/", "_"), "=")

RECURSIVE DecodeSextets(_)
\* the bytes of a run of alphabet characters, four characters to three bytes; a
\* trailing single sextet is dropped
DecodeSextets(d) ==
  IF Len(d) < 2 THEN << >>
  ELSE IF Len(d) = 2 THEN << Chr(Sextet[d[1]] * 4 + (Sextet[d[2]] \div 16)) >>
  ELSE IF Len(d) = 3 THEN
    << Chr(Sextet[d[1]] * 4 + (Sextet[d[2]] \div 16)),
       Chr((Sextet[d[2]] % 16) * 16 + (Sextet[d[3]] \div 4)) >>
  ELSE
    << Chr(Sextet[d[1]] * 4 + (Sextet[d[2]] \div 16)),
       Chr((Sextet[d[2]] % 16) * 16 + (Sextet[d[3]] \div 4)),
       Chr((Sextet[d[3]] % 4) * 64 + Sextet[d[4]]) >> \o DecodeSextets(SubSeq(d, 5, Len(d)))

\* Buffer.from(text, "base64").toString("utf8"): characters outside the alphabet
\* are skipped and decoding stops at the first "="
Base64Decode(s) ==
  LET sx == SelectSeq(s, LAMBDA c : c \in Base64Chars \/ c = "=")
      pads == { i \in 1..Len(sx) : sx[i] = "=" }
      stop == IF pads = {} THEN Len(sx) ELSE (CHOOSE i \in pads : \A j \in pads : i <= j) - 1
  IN DecodeSextets(SubSeq(sx, 1, stop))

RepeatChar(c, n) == [ i \in 1..n |-> c ]

fromBase64Url(value) ==
  LET normalized == ReplaceChar(ReplaceChar(value, "-", "+"), "_", "/")
      padding == IF Len(normalized) % 4 = 0 THEN << >>
                 ELSE RepeatChar("=", 4 - (Len(normalized) % 4))
  IN Base64Decode(normalized \o padding)

(* ---------------------------------------------------------------------- *)
(* JSON text of the flat objects the code serialises: an object is a       *)
(* sequence of members <<key, value>>, a value is a string or a number     *)
(* ---------------------------------------------------------------------- *)

JStr(chars) == [ t |-> "string", s |-> chars, n |-> 0 ]
JNum(k) == [ t |-> "number", s |-> << >>, n |-> k ]

Quote == "\""
Backslash == "\\"

RECURSIVE EscapeChars(_)
EscapeChars(s) ==
  IF Len(s) = 0 THEN << >>
  ELSE (IF s[1] = Quote \/ s[1] = Backslash THEN << Backslash, s[1] >> ELSE << s[1] >>)
       \o EscapeChars(Tail(s))

JsonString(s) == << Quote >> \o EscapeChars(s) \o << Quote >>

RECURSIVE Digits(_)
Digits(k) ==
  IF k < 10 THEN << HexDigits[k + 1] >> ELSE Digits(k \div 10) \o << HexDigits[(k % 10) + 1] >>

JsonValue(v) == IF v.t = "string" THEN JsonString(v.s) ELSE Digits(v.n)

RECURSIVE JsonMembers(_)
JsonMembers(obj) ==
  IF Len(obj) = 0 THEN << >>
  ELSE JsonString(obj[1][1]) \o << ":" >> \o JsonValue(obj[1][2])
       \o (IF Len(obj) > 1 THEN << "," >> ELSE << >>) \o JsonMembers(Tail(obj))

\* JSON.stringify of a flat object
JsonStringify(obj) == << "{" >> \o JsonMembers(obj) \o << "}" >>

ParseFail == [ ok |-> FALSE, val |-> JNum(0), next |-> 0 ]

RECURSIVE ParseStringBody(_, _, _)
\* characters of a string literal from position i (just after the opening quote)
ParseStringBody(s, i, acc) ==
  IF i > Len(s) THEN ParseFail
  ELSE IF s[i] = Quote THEN [ ok |-> TRUE, val |-> JStr(acc), next |-> i + 1 ]
  ELSE IF s[i] = Backslash THEN
    IF i + 1 <= Len(s) /\ (s[i+1] = Quote \/ s[i+1] = Backslash)
    THEN ParseStringBody(s, i + 2, Append(acc, s[i+1]))
    ELSE ParseFail
  ELSE IF s[i] = BadChar THEN ParseFail
  ELSE ParseStringBody(s, i + 1, Append(acc, s[i]))

DecimalDigits == { HexDigits[k] : k \in 1..10 }

IsDigit(c) == c \in DecimalDigits

DigitValue(c) == (CHOOSE k \in 1..10 : HexDigits[k] = c) - 1

RECURSIVE ParseDigits(_, _, _)
ParseDigits(s, i, acc) ==
  IF i <= Len(s) /\ IsDigit(s[i]) THEN ParseDigits(s, i + 1, acc * 10 + DigitValue(s[i]))
  ELSE [ ok |-> TRUE, val |-> JNum(acc), next |-> i ]

ParseValue(s, i) ==
  IF i > Len(s) THEN ParseFail
  ELSE IF s[i] = Quote THEN ParseStringBody(s, i + 1, << >>)
  ELSE IF IsDigit(s[i]) THEN
    (IF s[i] = "0" /\ i + 1 <= Len(s) /\ IsDigit(s[i+1]) THEN ParseFail
     ELSE ParseDigits(s, i, 0))
  ELSE ParseFail

NoObject == [ ok |-> FALSE, obj |-> << >> ]

RECURSIVE ParseMembers(_, _, _)
\* members from position i (at a key's opening quote) to the closing brace,
\* which must end the text
ParseMembers(s, i, acc) ==
  IF i > Len(s) \/ s[i] # Quote THEN NoObject
  ELSE LET k == ParseStringBody(s, i + 1, << >>) IN
    IF ~k.ok \/ k.next > Len(s) \/ s[k.next] # ":" THEN NoObject
    ELSE LET v == ParseValue(s, k.next + 1) IN
      IF ~v.ok \/ v.next > Len(s) THEN NoObject
      ELSE IF s[v.next] = "," THEN ParseMembers(s, v.next + 1, Append(acc, << k.val.s, v.val >>))
      ELSE IF s[v.next] = "}" /\ v.next = Len(s)
           THEN [ ok |-> TRUE, obj |-> Append(acc, << k.val.s, v.val >>) ]
      ELSE NoObject

\* JSON.parse of a text: ok = FALSE where JSON.parse throws or yields no object
JsonParse(s) ==
  IF Len(s) < 2 \/ s[1] # "{" THEN NoObject
  ELSE IF Len(s) = 2 THEN (IF s[2] = "}" THEN [ ok |-> TRUE, obj |-> << >> ] ELSE NoObject)
  ELSE ParseMembers(s, 2, << >>)

HasMember(obj, key) == \E i \in 1..Len(obj) : obj[i][1] = key

\* obj.key: the last member of that name
Member(obj, key) ==
  obj[CHOOSE i \in 1..Len(obj) : obj[i][1] = key /\ \A j \in (i+1)..Len(obj) : obj[j][1] # key][2]

\* typeof obj.key === "string" && obj.key
IsNonEmptyString(obj, key) ==
  HasMember(obj, key) /\ Member(obj, key).t = "string" /\ Len(Member(obj, key).s) > 0

(* ---------------------------------------------------------------------- *)
(* State signer                                                            *)
(* ---------------------------------------------------------------------- *)

\* length of createHmac("sha256", ...).digest("hex")
DigestHexLen == 64

RECURSIVE WeightedSum(_, _, _)
\* sum over the positions lo..hi of (byte at the position) * position
WeightedSum(s, lo, hi) ==
  IF lo > hi THEN 0
  ELSE IF lo = hi THEN (IF s[lo] \in CharSet THEN Code[s[lo]] ELSE 0) * lo
  ELSE LET mid == (lo + hi) \div 2
       IN WeightedSum(s, lo, mid) + WeightedSum(s, mid + 1, hi)

\* variant: a digest that does not depend on the secret
signValueUnkeyed(value, secret) ==
  [ i \in 1..64 |-> HexDigits[((WeightedSum(value, 1, Len(value)) + i) % 16) + 1] ]

\* createHmac("sha256", secret).update(value).digest("hex").  The keyed hash is
\* the platform's; what the model keeps of it: a function of (value, secret)
\* giving DigestHexLen lowercase hex characters, different for the different
\* secrets and for the different payloads that occur.
signValue(value, secret) ==
  LET a == WeightedSum(value, 1, Len(value)) % 65536
      b == (WeightedSum(secret, 1, Len(secret)) * 251 + Len(secret)) % 65536
  IN [ i \in 1..DigestHexLen |->
         IF i <= 4 THEN HexDigits[((a \div (16 ^ (i - 1))) % 16) + 1]
         ELSE IF i <= 8 THEN HexDigits[((b \div (16 ^ (i - 5))) % 16) + 1]
         ELSE HexDigits[((a + b * i + i) % 16) + 1] ]

\* Buffer.from(text, "utf8").length: a character outside ASCII takes more than one byte
Utf8Length(s) == Len(s) + Cardinality({ i \in 1..Len(s) : s[i] \notin CharSet })

\* variant: the length test left out
LengthsNeverDiffer(signature, expected) == FALSE

\* signatureBuffer.length !== expectedBuffer.length
LengthsDiffer(signature, expected) == Utf8Length(signature) # Utf8Length(expected)

\* timingSafeEqual(a, b): throws a RangeError when the byte lengths differ
timingSafeEqualThrows(a, b) == Utf8Length(a) # Utf8Length(b)
\* variant: a comparison that stops half way
timingSafeEqualFirstHalf(a, b) == SubSeq(a, 1, Len(a) \div 2) = SubSeq(b, 1, Len(b) \div 2)

timingSafeEqual(a, b) == a = b

KeyNonce == << "n", "o", "n", "c", "e" >>
KeyUserSub == << "u", "s", "e", "r", "S", "u", "b" >>
KeyReturnTo == << "r", "e", "t", "u", "r", "n", "T", "o" >>
KeyIssuedAt == << "i", "s", "s", "u", "e", "d", "A", "t" >>

\* the signed token: encodedPayload + "." + hex signature
SignPayload(obj, secret) ==
  LET encodedPayload == toBase64Url(JsonStringify(obj))
  IN encodedPayload \o << "." >> \o signValue(encodedPayload, secret)

\* Schwab: createSignedState(userSub), with the nonce, the clock and the
\* credential's appSecret it reads made explicit
createSignedStateSchwab(userSub, secret, nonce, issuedAt) ==
  SignPayload(<< << KeyNonce, JStr(nonce) >>, << KeyUserSub, JStr(userSub) >>,
                 << KeyIssuedAt, JNum(issuedAt) >> >>, secret)

\* Tasty: createSignedState(returnTo, sessionSecret)
createSignedStateTasty(returnTo, secret, nonce, issuedAt) ==
  SignPayload(<< << KeyNonce, JStr(nonce) >>, << KeyReturnTo, JStr(returnTo) >>,
                 << KeyIssuedAt, JNum(issuedAt) >> >>, secret)

\* result of parseSignedState: null, the parsed payload, or an exception
StateNull == [ kind |-> "null", obj |-> << >> ]
StateThrow == [ kind |-> "throw", obj |-> << >> ]
StateOk(obj) == [ kind |-> "state", obj |-> obj ]

\* the part of parseSignedState both handlers share: split on the last ".",
\* recompute the MAC, length check, constant-time comparison, decode, parse.
\* An absent query parameter is the empty string (the code tests !value).
VerifyAndParse(value, secret, requiredKey) ==
  IF Len(value) = 0 THEN StateNull
  ELSE LET separator == LastIndexOf(value, ".") IN
    IF separator = 0 THEN StateNull
    ELSE LET encodedPayload == SubSeq(value, 1, separator - 1)
             signature == SubSeq(value, separator + 1, Len(value))
             expected == signValue(encodedPayload, secret)
         IN IF LengthsDiffer(signature, expected) THEN StateNull
            ELSE IF timingSafeEqualThrows(signature, expected) THEN StateThrow
            ELSE IF ~timingSafeEqual(signature, expected) THEN StateNull
            ELSE LET parsed == JsonParse(fromBase64Url(encodedPayload)) IN
              IF parsed.ok /\ IsNonEmptyString(parsed.obj, requiredKey)
              THEN StateOk(parsed.obj) ELSE StateNull

parseSignedStateSchwab(value, secret) == VerifyAndParse(value, secret, KeyUserSub)

parseSignedStateTasty(value, secret) == VerifyAndParse(value, secret, KeyReturnTo)

Providers == { "schwab", "tasty" }

\* variant: a state under which a code has been exchanged is refused afterwards
parseSignedStateOnce(prov, value, secret) ==
  IF value \in accepted THEN StateNull
  ELSE IF prov = "schwab" THEN parseSignedStateSchwab(value, secret)
  ELSE parseSignedStateTasty(value, secret)

parseSignedState(prov, value, secret) ==
  IF prov = "schwab" THEN parseSignedStateSchwab(value, secret)
  ELSE parseSignedStateTasty(value, secret)

(* ---------------------------------------------------------------------- *)
(* Bounds, users, secrets, parameter names                                 *)
(* ---------------------------------------------------------------------- *)

\* bounds of the model
MaxTime == 31
MaxTok == 2
MaxStates == 1

\* two Lambda execution environments (each runs one invocation at a time)
Envs == { 1, 2 }

\* Cognito subject identifiers
Users == { << "u", "1" >>, << "u", "2" >> }

\* values the signing secret takes in the parameter store (one before, one after a rotation)
Secrets == { << "k", "1" >>, << "k", "2" >> }

\* expires_in values a token response carries, and the clock's steps (seconds)
ExpiresIn == { 91 }
ShortExpiresIn == { 30 }
TickSteps == { 30, 31 }

Empty == << >>

\* resource.ts: SCHWAB_TOKEN_PARAMETER_NAME / TASTY_TOKEN_PARAMETER_NAME
SchwabTokenPrefix ==
  << "/", "a", "m", "p", "l", "i", "f", "y", "/", "s", "c", "h", "w", "a", "b", "/",
     "o", "a", "u", "t", "h", "/", "t", "o", "k", "e", "n", "s" >>
TastyTokenPrefix ==
  << "/", "a", "m", "p", "l", "i", "f", "y", "/", "t", "a", "s", "t", "y", "/",
     "o", "a", "u", "t", "h", "/", "t", "o", "k", "e", "n", "s" >>

\* variant: one parameter for every user
getUserScopedParameterNameShared(prefix, userSub) == prefix

getUserScopedParameterName(prefix, userSub) == prefix \o << "/" >> \o userSub

(* ---------------------------------------------------------------------- *)
(* Token records and the token endpoint's responses                        *)
(* ---------------------------------------------------------------------- *)

\* an optional string: a field that may be missing (undefined)
None == [ present |-> FALSE, s |-> Empty ]
Some(chars) == [ present |-> TRUE, s |-> chars ]

KeyAccessToken == << "a", "c", "c", "e", "s", "s", "T", "o", "k", "e", "n" >>
KeyRefreshToken == << "r", "e", "f", "r", "e", "s", "h", "T", "o", "k", "e", "n" >>
KeyExpiresAt == << "e", "x", "p", "i", "r", "e", "s", "A", "t" >>

\* what getStoredTokens yields: null (found = FALSE) or the parsed TokenRecord
NoRecord == [ found |-> FALSE, accessToken |-> Empty, refreshToken |-> Empty, expiresAt |-> Empty ]
TokenRecord(at, rt, exp) ==
  [ found |-> TRUE, accessToken |-> at, refreshToken |-> rt, expiresAt |-> exp ]

\* JSON.stringify(tokens), the Value saveTokens writes
RecordText(tokens) ==
  JsonStringify(<< << KeyAccessToken, JStr(tokens.accessToken) >>,
                   << KeyRefreshToken, JStr(tokens.refreshToken) >>,
                   << KeyExpiresAt, JStr(tokens.expiresAt) >> >>)

StringMember(obj, key) ==
  IF HasMember(obj, key) /\ Member(obj, key).t = "string" THEN Member(obj, key).s ELSE Empty

\* getStoredTokens on the Value read: an empty Value is null, otherwise
\* JSON.parse(Value) as TokenRecord
ParseRecord(text) ==
  IF Len(text) = 0 THEN NoRecord
  ELSE LET parsed == JsonParse(text) IN
    IF ~parsed.ok THEN NoRecord
    ELSE TokenRecord(StringMember(parsed.obj, KeyAccessToken),
                     StringMember(parsed.obj, KeyRefreshToken),
                     StringMember(parsed.obj, KeyExpiresAt))

\* new Date(ms).toISOString() and new Date(text).getTime(): the timestamp's
\* text is its decimal digits here; -1 is NaN
TimeText(t) == Digits(t)
TimeOf(text) ==
  IF Len(text) > 0 /\ \A i \in 1..Len(text) : IsDigit(text[i])
  THEN ParseDigits(text, 1, 0).val.n ELSE -1

\* isExpired: bufferMs = 60 * 1000
ExpiryBuffer == 60

\* variant: a buffer one second longer
isExpiredWideBuffer(expiresAt, clock) ==
  TimeOf(expiresAt) = -1 \/ TimeOf(expiresAt) - 61 <= clock

\* variant: a buffer one second shorter
isExpiredNarrowBuffer(expiresAt, clock) ==
  TimeOf(expiresAt) = -1 \/ TimeOf(expiresAt) - 59 <= clock

isExpired(expiresAt, clock) ==
  LET expiration == TimeOf(expiresAt)
  IN expiration = -1 \/ expiration - ExpiryBuffer <= clock

\* a token endpoint response as requestToken sees it
NoPayload == [ status |-> 0, access_token |-> Empty, refresh_token |-> None, expires_in |-> 0 ]

\* variant: only the status is tested
TokenRequestFailsOnStatus(payload) == payload.status < 200 \/ payload.status >= 300

\* requestToken's test of the response: TRUE where it throws
TokenRequestFails(payload) ==
  payload.status < 200 \/ payload.status >= 300
    \/ Len(payload.access_token) = 0 \/ payload.expires_in = 0

\* variant: the existing refresh token is not carried over
buildTokenRecordDroppingExisting(tokenPayload, existingRefreshToken, clock) ==
  TokenRecord(tokenPayload.access_token,
              IF tokenPayload.refresh_token.present THEN tokenPayload.refresh_token.s ELSE Empty,
              TimeText(clock + tokenPayload.expires_in))

\* variant: the exchange goes on without a refresh token
MissingRefreshTokenIgnored(tokens) == FALSE

\* exchangeAuthorizationCode / exchangeCodeForTokens: if (!tokens.refreshToken) throw
MissingRefreshToken(tokens) == Len(tokens.refreshToken) = 0

\* buildTokenRecord(tokenPayload, existingRefreshToken)
buildTokenRecord(tokenPayload, existingRefreshToken, clock) ==
  TokenRecord(tokenPayload.access_token,
              IF tokenPayload.refresh_token.present THEN tokenPayload.refresh_token.s
              ELSE IF existingRefreshToken.present THEN existingRefreshToken.s
              ELSE Empty,
              TimeText(clock + tokenPayload.expires_in))

\* the parameter a handler's saveTokens / getStoredTokens names for a user
TokenParameterName(prov, userSub) ==
  IF prov = "schwab" THEN getUserScopedParameterName(SchwabTokenPrefix, userSub)
  ELSE TastyTokenPrefix

\* the parameter the tasty-rest handler's getStoredTokens names
RestTokenParameterName(userSub) == getUserScopedParameterName(TastyTokenPrefix, userSub)

\* GetParameter: ParameterNotFound is the empty Value here (both are null to the caller)
StoredValue(name) == IF name \in DOMAIN ssmTokens THEN ssmTokens[name] ELSE Empty

getStoredTokens(name) == ParseRecord(StoredValue(name))

(* ---------------------------------------------------------------------- *)
(* Invocations                                                             *)
(* ---------------------------------------------------------------------- *)

\* an execution environment with no invocation: the fields are the handler's
\* locals (userSub .. returnTo), its response (status, body, result) and the
\* history of what the invocation did (calls .. held)
IdleReq ==
  [ route |-> "none", pc |-> "idle", env |-> 0,
    actor |-> Empty,        \* the browser's user (history)
    userSub |-> Empty,      \* getAuthenticatedUserSub(event), or state.userSub in the callback
    code |-> Empty, state |-> Empty, symbol |-> FALSE,
    phase |-> 0,            \* market-info: 1 before the data call, 2 in the 401 retry
    stored |-> NoRecord, payload |-> NoPayload, tokens |-> NoRecord, returnTo |-> Empty,
    status |-> 0, body |-> "", result |-> Empty,
    calls |-> 0,            \* token endpoint requests made
    writes |-> 0,           \* PutParameter calls made
    dataCalls |-> 0,        \* market-data calls made
    marketStatus |-> 0,     \* marketData.status of the last market-data call
    replay |-> FALSE,       \* an earlier callback had exchanged a code under the state
    signedWith |-> Empty,   \* the secret an issued state presented unaltered was signed under
    held |-> Empty,         \* the secret the environment verified the state with
    again |-> FALSE,        \* the caller's second status request in succession
    before |-> Empty ]      \* the access token its first one had refreshed to

NoCreds == Empty

Running(p) == req[p].pc # "idle"

\* the platform hands an invocation to a warm idle environment, and to a
\* further environment only while the ones before it are busy
Routed(p) == ~Running(p) /\ \A q \in Envs : q < p => Running(q)

\* getSchwabCredentials / getTastyCredentials: the cache, else the parameter store
LoadedSecret(p) == IF cachedCredentials[p] # NoCreds THEN cachedCredentials[p] ELSE ssmSecret

Respond(r, status, body) == [ r EXCEPT !.pc = "done", !.status = status, !.body = body ]

AuthorizeCode == << "c", "1" >>
PopupPath == << "/", "t", "a", "s", "t", "y", "-", "a", "u", "t", "h", "-", "p", "o", "p", "u", "p" >>
ReturnTos == { Empty, << "/", "p" >> }

IssuedTokens == { i.tok : i \in issued }

\* a state token with the last character of its signature changed
AlterLast(tok) == [ tok EXCEPT ![Len(tok)] = IF tok[Len(tok)] = "0" THEN "1" ELSE "0" ]

\* a state token cut before its separator
PayloadOnly(tok) == SubSeq(tok, 1, LastIndexOf(tok, ".") - 1)

\* what a browser can put in the callback's state parameter
Presentable ==
  { Empty } \cup IssuedTokens \cup { AlterLast(t) : t \in IssuedTokens }
            \cup { PayloadOnly(t) : t \in IssuedTokens }

SignedWith(tok) ==
  IF tok \in IssuedTokens THEN (CHOOSE i \in issued : i.tok = tok).secret ELSE Empty

StartedBy(tok) ==
  IF tok \in IssuedTokens THEN (CHOOSE i \in issued : i.tok = tok).by ELSE Empty

\* the signer with nothing applied to it
SgOff ==
  [ pc |-> "off", input |-> Empty, secret |-> Empty, with |-> Empty, token |-> Empty,
    presented |-> Empty, how |-> "none", pos |-> 0, result |-> StateNull ]

\* Token Cache Get with nothing applied to it
NoResult == [ error |-> "none", Value |-> Empty ]
GsOff ==
  [ pc |-> "off", impl |-> "none", present |-> FALSE, value |-> Empty, fault |-> "none",
    result |-> NoResult, outcome |-> "none", thrown |-> "none", tokens |-> NoRecord, status |-> 0 ]

\* the tabs of one signed-in user that call saveLastTicker / loadLastTicker
Callers == { 1, 2 }

\* pageKey values of the pages, and tickers a user submits
PageKeys == { "schwab-market-info", "tasty-chart" }
Tickers == { "AAPL", "MSFT" }

\* a tab with no call in progress
IdleCall == [ pc |-> "idle", pageKey |-> "", lastTicker |-> "", found |-> 0 ]

\* loadLastTicker has not returned since the last save began
NotLoaded == [ valid |-> FALSE, pageKey |-> "", lastTicker |-> "" ]

\* no saveLastTicker / loadLastTicker in progress, no UserPreference record
UpOff ==
  [ pc |-> "off",
    records |-> {},                       \* the user's UserPreference records: id, pageKey, lastTicker
    call |-> [ c \in Callers |-> IdleCall ],
    saves |-> 0,                          \* saveLastTicker calls begun
    overlapped |-> FALSE,                 \* history: a save began while another was in progress
    lastSaved |-> [ k \in PageKeys |-> "" ],  \* history: ticker of the save that completed last
    loaded |-> NotLoaded ]                \* what loadLastTicker returned last

\* the credential parameters of the two functions (resource.ts environment)
SchwabCredentialParameters ==
  { "/amplify/schwab/credentials/app-key", "/amplify/schwab/credentials/app-secret" }

TastyCredentialParameters ==
  { "/amplify/tasty/credentials/client-id", "/amplify/tasty/credentials/client-secret",
    "/amplify/tasty/credentials/session-secret" }

\* no error thrown, no response yet
NoError == [ text |-> "", name |-> "", status |-> 0 ]
NoOutcome == [ kind |-> "none", status |-> 0, connected |-> FALSE, reason |-> "" ]

\* cachedCredentials = null
NotCached == [ valid |-> FALSE, values |-> << >> ]

\* no process, no credential parameter under observation
CrOff ==
  [ pc |-> "off",
    store |-> << >>,        \* parameter name -> what GetParameter finds under it
    puts |-> 0,             \* values written to the store so far
    proc |-> 0,             \* the process (execution environment) that serves the requests
    cached |-> NotCached,   \* the module-level cachedCredentials of that process
    route |-> "", record |-> "", answer |-> 0,
    left |-> 0,             \* calls of getCredentials the request has still to make
    gets |-> 0,             \* calls of getCredentials the request has made
    reads |-> 0,            \* GetParameter commands the last call sent
    got |-> << >>,          \* what the last call returned
    err |-> NoError,        \* what the request has thrown
    outcome |-> NoOutcome ]

\* no callback chosen, nothing occurred
NoDecision == [ kind |-> "none", why |-> "", batch |-> 0, index |-> 0 ]

\* no quote wait
QwOff ==
  [ pc |-> "off",
    settled |-> FALSE,       \* let settled
    timer |-> "none",        \* the 15 s timeout: armed, cleared, fired
    listener |-> FALSE,      \* handler is registered with the quote streamer
    connect |-> "none",      \* the connect-and-subscribe task
    cleanup |-> "none",      \* cleanup(): running, done
    cleanups |-> 0,          \* times cleanup() was started
    decision |-> NoDecision, \* the callback given to the finish that took effect
    settles |-> 0,           \* times resolve / reject was called
    result |-> NoDecision,   \* how the promise settled
    first |-> NoDecision,    \* history: what occurred first
    delivered |-> 0,         \* event batches the streamer has emitted
    elapsed |-> 0 ]          \* seconds since the wait began

\* the deployment before any request: no state issued, cold environments
Deployed ==
  /\ now = 0
  /\ ssmSecret = << "k", "1" >>
  /\ cachedCredentials = [ p \in Envs |-> NoCreds ]
  /\ req = [ p \in Envs |-> IdleReq ]
  /\ last = IdleReq
  /\ issued = {}
  /\ accepted = {}
  /\ nextTok = 1
  /\ completed = {}

\* no token record in the parameter store
EmptyStore ==
  /\ ssmTokens = [ n \in {} |-> Empty ]
  /\ mintedFor = {}

\* the record an authorization of user u2 before this deployment left in the store
EarlierUser == << "u", "2" >>
EarlierRecord == TokenRecord(<< "a", "0" >>, << "r", "0" >>, TimeText(91))

EarlierStore ==
  /\ ssmTokens = [ n \in { getUserScopedParameterName(SchwabTokenPrefix, EarlierUser) } |->
                     RecordText(EarlierRecord) ]
  /\ mintedFor = { << EarlierRecord.accessToken, EarlierUser >> }

Init ==
  /\ provider \in Providers
  /\ Deployed
  /\ EmptyStore
  /\ sg = SgOff
  /\ gs = GsOff
  /\ up = UpOff
  /\ cr = CrOff
  /\ qw = QwOff

\* the invocation of environment p goes on as r, or has responded
Frame(p, r) ==
  /\ last = IdleReq
  /\ req' = [ req EXCEPT ![p] = IF r.pc = "done" THEN IdleReq ELSE r ]
  /\ last' = IF r.pc = "done" THEN [ r EXCEPT !.env = p ] ELSE IdleReq
  /\ UNCHANGED << provider, now, ssmSecret, sg, gs, up, cr, qw >>

\* GET /schwab/authorize, /schwab/authorize-url: getAuthenticatedUserSub, then sign.
\* GET /tasty/authorize: no identity check, the caller signed in or not.
StartAuthorize(p) ==
  /\ Routed(p)
  /\ Cardinality(issued) + Cardinality({ q \in Envs : req[q].pc = "sign" }) < MaxStates
  /\ \E who \in Users, signedIn \in BOOLEAN, rt \in ReturnTos,
        route \in { "authorize", "authorize-url" } :
       /\ provider = "tasty" => route = "authorize"
       /\ provider = "schwab" => rt = Empty
       /\ LET r == [ IdleReq EXCEPT !.route = route, !.actor = IF signedIn THEN who ELSE Empty, !.returnTo = rt ]
          IN IF provider = "schwab" /\ ~signedIn
             THEN Frame(p, Respond(r, 500, "sign_in_required"))
             ELSE Frame(p, [ r EXCEPT !.pc = "sign",
                                      !.userSub = IF provider = "schwab" THEN who ELSE Empty ])
  /\ UNCHANGED << ssmTokens, cachedCredentials, issued, accepted, nextTok, mintedFor, completed >>

\* GET /{provider}/callback?code=..&state=..
Callback(p, codes, states) ==
  /\ Routed(p)
  /\ \E code \in codes, state \in states :
       Frame(p, [ IdleReq EXCEPT !.route = "callback", !.pc = "verify", !.code = code,
                                 !.state = state, !.signedWith = SignedWith(state),
                                 !.actor = StartedBy(state) ])
  /\ UNCHANGED << ssmTokens, cachedCredentials, issued, accepted, nextTok, mintedFor, completed >>

\* any browser: the code present or not, the state any of the presentable ones
StartCallback(p) == Callback(p, { Empty, AuthorizeCode }, Presentable)

\* the browser the provider redirected: the code it granted, the state it was sent
StartRedirected(p) == Callback(p, { AuthorizeCode }, IssuedTokens)

\* GET /schwab/status (identity checked), /tasty/status (not checked)
StartStatus(p) ==
  /\ Routed(p)
  /\ \E who \in Users, signedIn \in BOOLEAN :
       /\ LET r == [ IdleReq EXCEPT !.route = "status", !.actor = IF signedIn THEN who ELSE Empty ]
          IN IF provider = "schwab" /\ ~signedIn
             THEN Frame(p, Respond(r, 500, "sign_in_required"))
             ELSE Frame(p, [ r EXCEPT !.pc = "read",
                                      !.userSub = IF provider = "schwab" THEN who ELSE Empty ])
  /\ UNCHANGED << ssmTokens, cachedCredentials, issued, accepted, nextTok, mintedFor, completed >>

\* the caller whose status request has just refreshed the token asks for the
\* status again, its first response in hand
StartAgain(p) ==
  /\ Routed(p)
  /\ last.pc = "done" /\ last.route = "status" /\ ~last.again
  /\ last.calls = 1 /\ last.writes = 1 /\ Len(last.result) > 0
  /\ req' = [ req EXCEPT ![p] = [ IdleReq EXCEPT !.route = "status", !.pc = "read",
                                                 !.actor = last.actor, !.userSub = last.userSub,
                                                 !.again = TRUE, !.before = last.result ] ]
  /\ last' = IdleReq
  /\ UNCHANGED << provider, now, ssmSecret, sg, gs, up, cr, qw, ssmTokens, cachedCredentials, issued, accepted,
                  nextTok, mintedFor, completed >>

\* GET /schwab/market-info, /tasty/market-info ?symbol=..
StartMarketInfo(p) ==
  /\ Routed(p)
  /\ \E who \in Users, signedIn \in BOOLEAN, symbol \in BOOLEAN :
       /\ provider = "tasty" => signedIn
       /\ LET r == [ IdleReq EXCEPT !.route = "market-info", !.actor = IF signedIn THEN who ELSE Empty, !.symbol = symbol ]
          IN IF provider = "schwab" /\ ~signedIn
             THEN Frame(p, Respond(r, 500, "sign_in_required"))
             ELSE IF ~symbol THEN Frame(p, Respond(r, 400, "symbol_required"))
             ELSE Frame(p, [ r EXCEPT !.pc = "read", !.phase = 1,
                                      !.userSub = IF provider = "schwab" THEN who ELSE Empty ])
  /\ UNCHANGED << ssmTokens, cachedCredentials, issued, accepted, nextTok, mintedFor, completed >>

\* GET /tasty-rest/status, /tasty-rest/market-info (the tasty-rest handler)
StartRest(p) ==
  /\ Routed(p)
  /\ provider = "tasty"
  /\ \E who \in Users, signedIn \in BOOLEAN, symbol \in BOOLEAN,
        route \in { "rest-status", "rest-market-info" } :
       /\ route = "rest-status" => symbol
       /\ LET r == [ IdleReq EXCEPT !.route = route, !.actor = IF signedIn THEN who ELSE Empty, !.symbol = symbol ]
          IN IF ~signedIn THEN Frame(p, Respond(r, 500, "sign_in_required"))
             ELSE IF ~symbol THEN Frame(p, Respond(r, 400, "symbol_required"))
             ELSE Frame(p, [ r EXCEPT !.pc = "rread", !.userSub = who ])
  /\ UNCHANGED << ssmTokens, cachedCredentials, issued, accepted, nextTok, mintedFor, completed >>

\* createAuthUrl -> createSignedState (Schwab); createAuthorizeResponse (Tasty)
Sign(p) ==
  /\ req[p].pc = "sign"
  /\ last = IdleReq
  /\ LET r == req[p]
         secret == LoadedSecret(p)
         nonce == << "n" >> \o Digits(Cardinality(issued) + 1)
     IN \E tok \in { IF provider = "schwab"
                     THEN createSignedStateSchwab(r.userSub, secret, nonce, now)
                     ELSE createSignedStateTasty(r.returnTo, secret, nonce, now) } :
          /\ cachedCredentials' = [ cachedCredentials EXCEPT ![p] = secret ]
          /\ issued' = issued \cup { [ tok |-> tok, secret |-> secret, by |-> r.actor ] }
          /\ Frame(p, Respond([ r EXCEPT !.state = tok ],
                              IF r.route = "authorize-url" THEN 200 ELSE 302, "authorize"))
  /\ UNCHANGED << ssmTokens, accepted, nextTok, mintedFor, completed >>

\* the callback up to its test of code and state.  Schwab's parseSignedState
\* returns before it loads the credentials when the state is empty or has no
\* separator; Tasty's handler loads them first.
Verify(p) ==
  /\ req[p].pc = "verify"
  /\ last = IdleReq
  /\ \E parsed \in { parseSignedState(provider, req[p].state, LoadedSecret(p)) },
        noLoad \in { provider = "schwab"
                       /\ (Len(req[p].state) = 0 \/ LastIndexOf(req[p].state, ".") = 0) } :
     LET r == req[p]
         secret == LoadedSecret(p)
         returnTo == IF parsed.kind = "state" /\ IsNonEmptyString(parsed.obj, KeyReturnTo)
                     THEN Member(parsed.obj, KeyReturnTo).s ELSE PopupPath
         r1 == [ r EXCEPT !.held = IF noLoad THEN Empty ELSE secret,
                          !.replay = r.state \in accepted,
                          !.returnTo = IF provider = "tasty" THEN returnTo ELSE Empty ]
     IN /\ cachedCredentials' =
             IF noLoad THEN cachedCredentials ELSE [ cachedCredentials EXCEPT ![p] = secret ]
        /\ IF parsed.kind = "throw" THEN Frame(p, Respond(r1, 500, "internal_error"))
           ELSE IF Len(r.code) = 0 \/ parsed.kind = "null"
           THEN (IF provider = "schwab"
                 THEN Frame(p, Respond(r1, 400, "missing_code_or_state"))
                 ELSE Frame(p, Respond(r1, 302, "state_validation_failed")))
           ELSE Frame(p, [ r1 EXCEPT !.pc = "token",
                                     !.userSub = StringMember(parsed.obj, KeyUserSub) ])
  /\ UNCHANGED << ssmTokens, issued, accepted, nextTok, mintedFor, completed >>

\* what the provider's token endpoint can answer: nothing (a transport error,
\* status 0), a failure status, a success status without the fields, or a fresh access token with expires_in and a
\* refresh_token that is fresh, omitted, or the empty string
TokenResponsesWith(lifetimes) ==
  { NoPayload, [ NoPayload EXCEPT !.status = 401 ], [ NoPayload EXCEPT !.status = 200 ] }
  \cup (IF nextTok > MaxTok THEN {}
        ELSE { [ status |-> 200, access_token |-> << "a" >> \o Digits(nextTok),
                 refresh_token |-> rt, expires_in |-> e ] :
               rt \in { None, Some(Empty), Some(<< "r" >> \o Digits(nextTok)) },
               e \in lifetimes })

TokenResponses == TokenResponsesWith(ExpiresIn)

\* variant: the write is lost
WriteParameterLost(name, text) == ssmTokens' = ssmTokens

WriteParameter(name, text) ==
  ssmTokens' = [ n \in (DOMAIN ssmTokens) \cup { name } |->
                   IF n = name THEN text ELSE ssmTokens[n] ]

\* exchangeAuthorizationCode / exchangeCodeForTokens up to saveTokens
ExchangeToken(p) ==
  /\ req[p].pc = "token"
  /\ \E payload \in TokenResponses :
       LET r == [ req[p] EXCEPT !.payload = payload, !.calls = @ + 1 ]
           tokens == buildTokenRecord(payload, None, now)
       IN IF TokenRequestFails(payload)
          THEN /\ Frame(p, Respond(r, 500, "token_request_failed"))
               /\ UNCHANGED << nextTok, mintedFor, accepted >>
          ELSE /\ nextTok' = nextTok + 1
               /\ mintedFor' = mintedFor \cup { << payload.access_token, r.userSub >> }
               /\ accepted' = accepted \cup { r.state }
               /\ IF MissingRefreshToken(tokens)
                  THEN Frame(p, Respond(r, 500, "no_refresh_token"))
                  ELSE Frame(p, [ r EXCEPT !.pc = "save", !.tokens = tokens ])
  /\ UNCHANGED << ssmTokens, cachedCredentials, issued, completed >>

\* saveTokens at the end of the exchange, and the callback's success response
SaveExchange(p) ==
  /\ req[p].pc = "save"
  /\ LET r == [ req[p] EXCEPT !.writes = @ + 1 ]
     IN /\ WriteParameter(TokenParameterName(provider, r.userSub), RecordText(r.tokens))
        /\ completed' = completed \cup { r.actor }
        /\ Frame(p, Respond(r, IF provider = "schwab" THEN 200 ELSE 302, "oauth_connected"))
  /\ UNCHANGED << cachedCredentials, issued, accepted, nextTok, mintedFor >>

\* variant: the record's tokens are not looked at
getValidAccessTokenBranchUnchecked(prov, stored, clock) ==
  IF ~stored.found THEN "absent"
  ELSE IF ~isExpired(stored.expiresAt, clock) THEN "cached" ELSE "refresh"

\* the branch getValidAccessToken takes on the record it read:
\* "absent" (return null), "cached" (return storedTokens.accessToken), "refresh"
getValidAccessTokenBranch(prov, stored, clock) ==
  IF prov = "schwab"
  THEN (IF ~stored.found \/ Len(stored.accessToken) = 0 \/ Len(stored.refreshToken) = 0
        THEN "absent"
        ELSE IF ~isExpired(stored.expiresAt, clock) THEN "cached" ELSE "refresh")
  ELSE (IF ~stored.found \/ Len(stored.refreshToken) = 0 THEN "absent"
        ELSE IF Len(stored.accessToken) > 0 /\ ~isExpired(stored.expiresAt, clock)
        THEN "cached" ELSE "refresh")

\* variant: status reports a connection whatever getValidAccessToken returned
ReturnedAsConnected(r, token) ==
  LET r1 == [ r EXCEPT !.result = token ]
  IN IF r.route = "status" THEN Respond(r1, 200, "connected_true")
     ELSE IF Len(token) = 0 THEN Respond(r1, 401, "not_connected")
     ELSE [ r1 EXCEPT !.pc = "data" ]

\* what the route does with the access token getValidAccessToken returned
Returned(r, token) ==
  LET r1 == [ r EXCEPT !.result = token ]
  IN IF r.route = "status"
     THEN Respond(r1, 200, IF Len(token) > 0 THEN "connected_true" ELSE "connected_false")
     ELSE IF Len(token) = 0 THEN Respond(r1, 401, "not_connected")
     ELSE [ r1 EXCEPT !.pc = "data" ]

\* getStoredTokens and what follows it without another await: in
\* getValidAccessToken (status, Schwab market-info), in the Tasty market-info
\* route, and in the Schwab market-info route after a 401 (phase 2)
Read(p) ==
  /\ req[p].pc = "read"
  /\ last = IdleReq
  /\ \E stored \in { getStoredTokens(TokenParameterName(provider, req[p].userSub)) } :
     LET r == [ req[p] EXCEPT !.stored = stored ]
         branch == getValidAccessTokenBranch(provider, stored, now)
     IN IF r.route = "market-info" /\ provider = "tasty"
        THEN (IF ~stored.found \/ Len(stored.refreshToken) = 0
              THEN Frame(p, Respond(r, 401, "not_connected"))
              ELSE Frame(p, [ r EXCEPT !.pc = "quote" ]))
        ELSE IF r.phase = 2
        THEN (IF ~stored.found THEN Frame(p, Respond(r, 401, "authorization_expired"))
              ELSE Frame(p, [ r EXCEPT !.pc = "refresh" ]))
        ELSE IF branch = "absent" THEN Frame(p, Returned(r, Empty))
        ELSE IF branch = "cached" THEN Frame(p, Returned(r, stored.accessToken))
        ELSE Frame(p, [ r EXCEPT !.pc = "refresh" ])
  /\ UNCHANGED << ssmTokens, cachedCredentials, issued, accepted, nextTok, mintedFor, completed >>

\* refreshAccessToken up to saveTokens: requestToken with the stored refresh
\* token, buildTokenRecord with it as the existing one
RefreshWith(p, responses) ==
  /\ req[p].pc = "refresh"
  /\ cachedCredentials' = [ cachedCredentials EXCEPT ![p] = LoadedSecret(p) ]
  /\ \E payload \in responses :
       LET r == [ req[p] EXCEPT !.payload = payload, !.calls = @ + 1 ]
       IN IF TokenRequestFails(payload)
          THEN /\ IF r.route = "status" THEN Frame(p, Respond(r, 200, "status_error"))
                  ELSE Frame(p, Respond(r, 500, "token_request_failed"))
               /\ UNCHANGED << nextTok, mintedFor >>
          ELSE /\ nextTok' = nextTok + 1
               /\ mintedFor' = mintedFor \cup { << payload.access_token, r.userSub >> }
               /\ Frame(p, [ r EXCEPT !.pc = "rsave",
                     !.tokens = buildTokenRecord(payload, Some(r.stored.refreshToken), now) ])
  /\ UNCHANGED << ssmTokens, issued, accepted, completed >>

RefreshToken(p) == RefreshWith(p, TokenResponses)

\* the same with a provider that also issues access tokens of a short lifetime
RefreshAny(p) == RefreshWith(p, TokenResponsesWith(ExpiresIn \cup ShortExpiresIn))

\* saveTokens at the end of refreshAccessToken, and the return of the new access token
SaveRefresh(p) ==
  /\ req[p].pc = "rsave"
  /\ LET r == [ req[p] EXCEPT !.writes = @ + 1 ]
     IN /\ WriteParameter(TokenParameterName(provider, r.userSub), RecordText(r.tokens))
        /\ Frame(p, Returned(r, r.tokens.accessToken))
  /\ UNCHANGED << cachedCredentials, issued, accepted, nextTok, mintedFor, completed >>

\* variant: every 401 of the data call is retried
RetriedAlways(status, phase) == status = 401

\* market-info: if (marketData.status === 401) after the first getLevelOneEquities only
Retried(status, phase) == status = 401 /\ phase = 1

\* Schwab market-info: getLevelOneEquities and the handling of its status
DataCall(p) ==
  /\ req[p].pc = "data"
  /\ \E outcome \in { 200, 401, 500 } :
       LET r == [ req[p] EXCEPT !.dataCalls = @ + 1, !.marketStatus = outcome ]
       IN IF Retried(outcome, r.phase)
          THEN Frame(p, [ r EXCEPT !.pc = "read", !.phase = 2 ])
          ELSE IF outcome = 200 THEN Frame(p, Respond(r, 200, "market_data"))
          ELSE Frame(p, Respond(r, outcome, "market_data_failed"))
  /\ UNCHANGED << ssmTokens, cachedCredentials, issued, accepted, nextTok, mintedFor, completed >>

\* Tasty market-info: getMarketInfo resolves with a quote or rejects
TastyQuote(p) ==
  /\ req[p].pc = "quote"
  /\ cachedCredentials' = [ cachedCredentials EXCEPT ![p] = LoadedSecret(p) ]
  /\ \E quoted \in BOOLEAN :
       LET r == [ req[p] EXCEPT !.dataCalls = @ + 1 ]
       IN IF quoted THEN Frame(p, Respond(r, 200, "market_data"))
          ELSE Frame(p, Respond(r, 500, "quote_failed"))
  /\ UNCHANGED << ssmTokens, issued, accepted, nextTok, mintedFor, completed >>

\* tasty-rest: getConnectionStatus / getRestMarketInfo read the user-scoped
\* parameter and, with a refresh token, call the SDK
RestRead(p) ==
  /\ req[p].pc = "rread"
  /\ last = IdleReq
  /\ \E stored \in { getStoredTokens(RestTokenParameterName(req[p].userSub)) } :
     LET r == [ req[p] EXCEPT !.stored = stored ]
     IN IF ~stored.found \/ Len(stored.refreshToken) = 0
        THEN (IF r.route = "rest-status" THEN Frame(p, Respond(r, 200, "not_connected"))
              ELSE Frame(p, Respond(r, 401, "not_connected")))
        ELSE \E sdkOk \in BOOLEAN :
               IF r.route = "rest-status"
               THEN Frame(p, Respond(r, 200, IF sdkOk THEN "connected_true" ELSE "status_error"))
               ELSE Frame(p, Respond([ r EXCEPT !.dataCalls = @ + 1 ], IF sdkOk THEN 200 ELSE 500,
                                     IF sdkOk THEN "market_data" ELSE "market_data_failed"))
  /\ UNCHANGED << ssmTokens, cachedCredentials, issued, accepted, nextTok, mintedFor, completed >>

(* ---------------------------------------------------------------------- *)
(* Environment                                                             *)
(* ---------------------------------------------------------------------- *)

Tick ==
  /\ \E d \in TickSteps : now + d <= MaxTime /\ now' = now + d
  /\ last = IdleReq
  /\ UNCHANGED << last, provider, ssmSecret, ssmTokens, cachedCredentials, req, issued, accepted,
                  nextTok, mintedFor, completed, sg, gs, up, cr, qw >>

\* an operator puts a new signing secret in the parameter store
RotateSecret ==
  /\ ssmSecret = << "k", "1" >>
  /\ ssmSecret' = << "k", "2" >>
  /\ last = IdleReq
  /\ UNCHANGED << last, provider, now, ssmTokens, cachedCredentials, req, issued, accepted,
                  nextTok, mintedFor, completed, sg, gs, up, cr, qw >>

\* the platform replaces an idle execution environment: module state is lost
Recycle(p) ==
  /\ ~Running(p)
  /\ cachedCredentials[p] # NoCreds
  /\ cachedCredentials' = [ cachedCredentials EXCEPT ![p] = NoCreds ]
  /\ last = IdleReq
  /\ UNCHANGED << last, provider, now, ssmSecret, ssmTokens, req, issued, accepted, nextTok, mintedFor,
                  completed, sg, gs, up, cr, qw >>

\* the response leaves the handler
Deliver ==
  /\ last # IdleReq
  /\ last' = IdleReq
  /\ UNCHANGED << provider, now, ssmSecret, ssmTokens, cachedCredentials, req, issued, accepted,
                  nextTok, mintedFor, completed, sg, gs, up, cr, qw >>

\* the environments that serve the invocations of Spec and SpecRotation: one
\* warm environment takes them one after another
Serial == { 1 }

Next ==
  \/ \E p \in Serial :
       \/ StartAuthorize(p) \/ StartCallback(p) \/ StartStatus(p) \/ StartMarketInfo(p)
       \/ StartRest(p) \/ Sign(p) \/ Verify(p) \/ ExchangeToken(p) \/ SaveExchange(p)
       \/ Read(p) \/ RefreshToken(p) \/ SaveRefresh(p) \/ DataCall(p) \/ TastyQuote(p)
       \/ RestRead(p)
  \/ Deliver
  \/ Tick

Spec == Init /\ [][Next]_vars

\* the same handlers with the clock stopped, the signing secret rotated in the
\* parameter store and execution environments replaced
NextRotation ==
  \/ \E p \in Serial :
       \/ StartAuthorize(p) \/ StartCallback(p) \/ Sign(p) \/ Verify(p) \/ ExchangeToken(p)
       \/ SaveExchange(p) \/ Recycle(p)
  \/ Deliver
  \/ RotateSecret

SpecRotation == Init /\ [][NextRotation]_vars

\* the Schwab handler's authorize, callback and status routes on two execution
\* environments that run at the same time, the clock stopped, user u2's earlier
\* record in the store
InitConcurrent ==
  /\ provider = "schwab"
  /\ Deployed
  /\ EarlierStore
  /\ sg = SgOff
  /\ gs = GsOff
  /\ up = UpOff
  /\ cr = CrOff
  /\ qw = QwOff

NextConcurrent ==
  \/ \E p \in Envs :
       \/ StartAuthorize(p) \/ StartRedirected(p) \/ StartStatus(p)
       \/ Sign(p) \/ Verify(p) \/ ExchangeToken(p) \/ SaveExchange(p)
       \/ Read(p)
  \/ Deliver

SpecConcurrent == InitConcurrent /\ [][NextConcurrent]_vars

\* the token gate on its own: getValidAccessToken behind the status and
\* market-info routes, on the record an earlier authorization of user u1 left
\* (30, 60 or 61 s from its expiry, or without its refresh token), or on none
GateUser == << "u", "1" >>

GateRecords ==
  { TokenRecord(<< "a", "0" >>, << "r", "0" >>, TimeText(e)) : e \in { 30, 60, 61 } }
  \cup { TokenRecord(<< "a", "0" >>, Empty, TimeText(91)) }

InitGate ==
  /\ provider \in Providers
  /\ Deployed
  /\ sg = SgOff
  /\ gs = GsOff
  /\ up = UpOff
  /\ cr = CrOff
  /\ qw = QwOff
  /\ \/ EmptyStore
     \/ \E rec \in GateRecords :
          /\ ssmTokens = [ n \in { TokenParameterName(provider, GateUser) } |-> RecordText(rec) ]
          /\ mintedFor = { << rec.accessToken, GateUser >> }

NextGate ==
  \/ \E p \in Serial :
       \/ StartStatus(p) \/ StartMarketInfo(p) \/ StartAgain(p)
       \/ Read(p) \/ RefreshAny(p) \/ SaveRefresh(p) \/ DataCall(p) \/ TastyQuote(p)
  \/ Deliver
  \/ Tick

SpecGate == InitGate /\ [][NextGate]_vars

(* ---------------------------------------------------------------------- *)
(* Properties of the handlers                                              *)
(* ---------------------------------------------------------------------- *)

\* the invocations in progress and the one that has just responded
Invocations == { last } \cup { req[p] : p \in Envs }

\* the invocation of environment p after a step of it
After(p) == IF req'[p].pc = "idle" THEN last' ELSE req'[p]

Stepped(p) == req'[p] # req[p]

\* getStoredTokens(name) on the parameter store after the step
StoredAfter(name) == IF name \in DOMAIN ssmTokens' THEN ParseRecord(ssmTokens'[name]) ELSE NoRecord

RejectedState(r) ==
  /\ r.pc = "done"
  /\ r.body \in { "missing_code_or_state", "state_validation_failed" }
  /\ r.calls = 0
  /\ r.writes = 0

C2_TastyTokensPerUser ==
  (provider = "tasty" /\ last.route \in { "rest-status", "rest-market-info" }
     /\ last.userSub \in Users)
    => (last.actor \in completed <=> Len(last.stored.refreshToken) > 0)

\* C3: a callback whose state was signed under another secret than the one the
\* environment holds is rejected: no token request, no parameter written.
C3_StaleSecretRejected ==
  \A r \in Invocations :
    (r.route = "callback" /\ r.signedWith # Empty /\ r.held # Empty /\ r.signedWith # r.held)
      => RejectedState(r)

\* a callback with a code and an unaltered state signed before the rotation,
\* verified under the new secret
C3_Witness ==
  /\ last.route = "callback" /\ Len(last.code) > 0
  /\ last.signedWith = << "k", "1" >> /\ last.held = << "k", "2" >>
  /\ RejectedState(last)

\* C7 as stated: a state under which a callback has exchanged a code is
\* consumed; a later callback presenting it is rejected, without token request
\* and without write.
C7_ConsumedExactlyOnce ==
  \A r \in Invocations : (r.route = "callback" /\ r.pc # "verify" /\ r.replay) => RejectedState(r)

\* C7 as the code has it: nothing records a state as used.  A later callback
\* that presents the same state with a code, the environment holding the secret
\* it was signed under, is accepted again and requests tokens again.
C7_ReplayAcceptedAgain ==
  \A r \in Invocations :
    (r.route = "callback" /\ r.pc # "verify" /\ r.replay /\ Len(r.code) > 0
       /\ r.signedWith # Empty /\ r.signedWith = r.held)
      => (~RejectedState(r) /\ (r.pc = "done" => r.calls = 1))

\* a replayed state whose callback has exchanged a code and overwritten the record
C7_Witness ==
  /\ last.route = "callback" /\ last.replay
  /\ last.body = "oauth_connected" /\ last.calls = 1 /\ last.writes = 1

\* C8: the code exchange on a token response with access_token and expires_in
\* but no refresh_token ends in the missing-refresh-token error, writes no
\* parameter and leaves the store as it was.
C8_MissingRefreshTokenUnwritten ==
  [][ \A p \in Envs :
        (req[p].pc = "token" /\ Stepped(p) /\ ~TokenRequestFails(After(p).payload)
           /\ ~After(p).payload.refresh_token.present)
          => /\ After(p).pc = "done"
             /\ After(p).status = 500 /\ After(p).body = "no_refresh_token"
             /\ After(p).writes = 0
             /\ ssmTokens' = ssmTokens ]_vars

\* the exchange of a replayed callback failed for the missing refresh_token
\* and the user's earlier record is still there
C8_Witness ==
  /\ last.route = "callback" /\ last.body = "no_refresh_token"
  /\ ~last.payload.refresh_token.present /\ Len(last.payload.access_token) > 0
  /\ last.writes = 0
  /\ getStoredTokens(TokenParameterName(provider, last.userSub)).found

\* C9: a refresh whose response omits refresh_token builds the record from the
\* new access token, the stored refresh token and the new expiry, and
\* saveTokens persists the record that was built.
C9_RefreshKeepsRefreshToken ==
  [][ \A p \in Envs :
        /\ (req[p].pc = "refresh" /\ req'[p].pc = "rsave"
               /\ ~req'[p].payload.refresh_token.present)
             => req'[p].tokens = TokenRecord(req'[p].payload.access_token,
                                             req[p].stored.refreshToken,
                                             TimeText(now + req'[p].payload.expires_in))
        /\ (req[p].pc = "rsave" /\ Stepped(p))
             => StoredAfter(TokenParameterName(provider, req[p].userSub)) = req[p].tokens
    ]_vars

\* a status request has refreshed without a refresh_token in the response: the
\* stored record has the new access token and the refresh token it had
C9_Witness ==
  /\ last.route = "status" /\ last.writes = 1 /\ ~last.payload.refresh_token.present
  /\ LET rec == getStoredTokens(TokenParameterName(provider, last.userSub))
     IN /\ rec.accessToken = last.payload.access_token
        /\ rec.accessToken # last.stored.accessToken
        /\ rec.refreshToken = last.stored.refreshToken
        /\ Len(rec.refreshToken) > 0
        /\ TimeOf(rec.expiresAt) > TimeOf(last.stored.expiresAt)

\* the record getValidAccessToken reads is valid and expires 61 s or more from now
FreshRecord(rec) ==
  /\ rec.found /\ Len(rec.accessToken) > 0 /\ Len(rec.refreshToken) > 0
  /\ TimeOf(rec.expiresAt) >= now + 61

\* C10: getValidAccessToken on a valid record that expires more than 60 s from
\* now returns the stored access token, requests no token and leaves the
\* stored record as it is.
C10_FreshTokenReturned ==
  [][ \A p \in Envs :
        (req[p].pc = "read" /\ Stepped(p) /\ req[p].phase # 2
           /\ ~(provider = "tasty" /\ req[p].route = "market-info")
           /\ FreshRecord(getStoredTokens(TokenParameterName(provider, req[p].userSub))))
          => /\ After(p).result =
                  getStoredTokens(TokenParameterName(provider, req[p].userSub)).accessToken
             /\ After(p).pc # "refresh"
             /\ After(p).calls = 0 /\ After(p).writes = 0
             /\ ssmTokens' = ssmTokens ]_vars

\* a status request answered from a record with exactly 61 s left
C10_Witness ==
  /\ last.route = "status" /\ last.body = "connected_true"
  /\ TimeOf(last.stored.expiresAt) = now + 61
  /\ last.result = last.stored.accessToken /\ Len(last.result) > 0
  /\ last.calls = 0 /\ last.writes = 0

(* ---------------------------------------------------------------------- *)
(* Properties of the token gate (SpecGate)                                 *)
(* ---------------------------------------------------------------------- *)

\* the step is getValidAccessToken's read of the record (not the market-info
\* route's own read after a 401, nor the Tasty market-info route's)
GateRead(p) ==
  /\ req[p].pc = "read" /\ Stepped(p) /\ req[p].phase # 2
  /\ ~(provider = "tasty" /\ req[p].route = "market-info")

\* the record has a refresh token and expires 60 s from now or sooner
DueRecord(rec) ==
  /\ rec.found /\ Len(rec.refreshToken) > 0
  /\ TimeOf(rec.expiresAt) - now <= 60

\* C11: getValidAccessToken on a record with a refresh token that expires 60 s
\* from now or sooner goes on to refreshAccessToken, which requests a token; on
\* the provider's token, the refreshed record is saved under the same user's
\* parameter and its access token, not the stored one, is what is returned.
C11_DueTokenRefreshed ==
  [][ \A p \in Envs :
        /\ (GateRead(p)
               /\ DueRecord(getStoredTokens(TokenParameterName(provider, req[p].userSub))))
             => (After(p).pc = "refresh" /\ After(p).result = Empty)
        /\ (req[p].pc = "refresh" /\ Stepped(p))
             => After(p).calls = req[p].calls + 1
        /\ (req[p].pc = "rsave" /\ Stepped(p) /\ req[p].phase # 2)
             => /\ StoredAfter(TokenParameterName(provider, req[p].userSub)) = req[p].tokens
                /\ DOMAIN ssmTokens' = DOMAIN ssmTokens
                /\ After(p).result = req[p].payload.access_token
                /\ After(p).result = req[p].tokens.accessToken
                /\ After(p).result # req[p].stored.accessToken
    ]_vars

\* a status request on a record with exactly 60 s left has refreshed it and
\* answered with the new access token, which is the stored one now
C11_Witness ==
  /\ last.route = "status" /\ last.body = "connected_true"
  /\ TimeOf(last.stored.expiresAt) = 60 /\ now = 0
  /\ last.calls = 1 /\ last.writes = 1
  /\ last.result = last.payload.access_token /\ last.result # last.stored.accessToken
  /\ getStoredTokens(TokenParameterName(provider, last.userSub)).accessToken = last.result

\* getValidAccessToken's read in the second of two status requests in succession
SecondRead(p) == GateRead(p) /\ req[p].again

C13_AbsentWithoutRefreshToken ==
  [][ \A p \in Envs :
        (req[p].pc = "read" /\ Stepped(p) /\ req[p].phase # 2
           /\ LET rec == getStoredTokens(TokenParameterName(provider, req[p].userSub))
              IN ~rec.found \/ Len(rec.refreshToken) = 0)
          => /\ After(p).pc = "done"
             /\ After(p).result = Empty
             /\ After(p).calls = 0 /\ After(p).writes = 0
             /\ ssmTokens' = ssmTokens
             /\ req[p].route = "status"
                  => (After(p).status = 200 /\ After(p).body = "connected_false")
             /\ req[p].route = "market-info"
                  => /\ After(p).status = 401 /\ After(p).body = "not_connected"
                     /\ After(p).dataCalls = 0 ]_vars

\* market-info has answered 401 on a record that has an access token and no
\* refresh token
C13_Witness ==
  /\ last.route = "market-info" /\ last.status = 401 /\ last.body = "not_connected"
  /\ last.stored.found /\ Len(last.stored.accessToken) > 0 /\ Len(last.stored.refreshToken) = 0
  /\ last.calls = 0 /\ last.writes = 0 /\ last.dataCalls = 0

(* ---------------------------------------------------------------------- *)
(* The state signer on its own: createSignedState, then parseSignedState   *)
(* of the token as issued or as a client altered it                        *)
(* ---------------------------------------------------------------------- *)

\* what createSignedState is given: the verified userSub (Schwab), the
\* return_to query value or "" (Tasty)
SignerInputs(prov) == IF prov = "schwab" THEN Users ELSE ReturnTos

\* characters a client puts in place of one character of the signature
Replacements == { "0", "f", "G", ".", BadChar }

InitSigner ==
  /\ provider \in Providers
  /\ Deployed
  /\ EmptyStore
  /\ sg \in { [ SgOff EXCEPT !.pc = "input", !.input = x, !.secret = k ] :
                x \in Users \cup ReturnTos, k \in Secrets }
  /\ sg.input \in SignerInputs(provider)
  /\ gs = GsOff
  /\ up = UpOff
  /\ cr = CrOff
  /\ qw = QwOff

\* createSignedState
SgSign ==
  /\ sg.pc = "input"
  /\ \E issuedAt \in { 0, MaxTime } :
       LET nonce == << "n", "1" >>
           tok == IF provider = "schwab"
                  THEN createSignedStateSchwab(sg.input, sg.secret, nonce, issuedAt)
                  ELSE createSignedStateTasty(sg.input, sg.secret, nonce, issuedAt)
       IN sg' = [ sg EXCEPT !.pc = "signed", !.token = tok, !.presented = tok ]
  /\ UNCHANGED << provider, now, ssmSecret, ssmTokens, cachedCredentials, req, last, issued,
                  accepted, nextTok, mintedFor, completed, gs, up, cr, qw >>

\* a client changes one character of the signature segment
SgAlter ==
  /\ sg.pc = "signed"
  /\ \E i \in 1..DigestHexLen, c \in Replacements :
       LET at == Len(sg.token) - DigestHexLen + i
       IN /\ sg.token[at] # c
          /\ sg' = [ sg EXCEPT !.pc = "altered", !.how = "alter", !.pos = i,
                               !.presented = [ sg.token EXCEPT ![at] = c ] ]
  /\ UNCHANGED << provider, now, ssmSecret, ssmTokens, cachedCredentials, req, last, issued,
                  accepted, nextTok, mintedFor, completed, gs, up, cr, qw >>

\* the token with its signature cut or replaced
Unsigned(tok, how) ==
  LET separator == LastIndexOf(tok, ".")
      encodedPayload == SubSeq(tok, 1, separator - 1)
      signature == SubSeq(tok, separator + 1, Len(tok))
  IN CASE how = "no-separator" -> encodedPayload
       [] how = "stripped" -> encodedPayload \o << "." >>
       [] how = "shorter" -> encodedPayload \o << "." >> \o SubSeq(signature, 1, Len(signature) - 1)
       [] how = "longer" -> tok \o << "0" >>
       [] how = "garbage" -> encodedPayload \o << ".", "x", "y", "z" >>
       [] how = "wide" -> encodedPayload \o << "." >> \o SubSeq(signature, 1, Len(signature) - 1)
                            \o << BadChar >>
       [] OTHER -> Empty

UnsignedKinds == { "no-separator", "stripped", "shorter", "longer", "garbage", "wide", "absent" }

\* a client strips or replaces the signature
SgCut ==
  /\ sg.pc = "signed"
  /\ \E how \in UnsignedKinds :
       sg' = [ sg EXCEPT !.pc = "altered", !.how = how, !.presented = Unsigned(sg.token, how) ]
  /\ UNCHANGED << provider, now, ssmSecret, ssmTokens, cachedCredentials, req, last, issued,
                  accepted, nextTok, mintedFor, completed, gs, up, cr, qw >>

\* parseSignedState of what is presented, under a secret the handler holds
SgVerify ==
  /\ sg.pc \in { "signed", "altered" }
  /\ \E k \in Secrets :
       sg' = [ sg EXCEPT !.pc = "verified", !.with = k,
                        !.result = parseSignedState(provider, sg.presented, k) ]
  /\ UNCHANGED << provider, now, ssmSecret, ssmTokens, cachedCredentials, req, last, issued,
                  accepted, nextTok, mintedFor, completed, gs, up, cr, qw >>

\* payloads that are no state: no JSON text, an object without the required field, an
\* object whose required field is the empty string
NoStatePayloads ==
  << << "x" >>,
     JsonStringify(<< << KeyNonce, JStr(<< "n", "1" >>) >> >>),
     JsonStringify(<< << KeyNonce, JStr(<< "n", "1" >>) >>, << KeyUserSub, JStr(Empty) >>,
                      << KeyReturnTo, JStr(Empty) >> >>) >>

\* a holder of the signing secret signs a payload that is no state
SgResign ==
  /\ sg.pc = "signed"
  /\ \E i \in DOMAIN NoStatePayloads :
       LET encodedPayload == toBase64Url(NoStatePayloads[i])
       IN sg' = [ sg EXCEPT !.pc = "altered", !.how = "resigned", !.pos = i,
                            !.presented = encodedPayload \o << "." >>
                                            \o signValue(encodedPayload, sg.secret) ]
  /\ UNCHANGED << provider, now, ssmSecret, ssmTokens, cachedCredentials, req, last, issued,
                  accepted, nextTok, mintedFor, completed, gs, up, cr, qw >>

\* the callback's test of code and parsed state: the response it returns there, or none
\* (status 0) where it goes on to the code exchange
CallbackTest(prov, code, parsed) ==
  IF parsed.kind = "throw"
    THEN [ status |-> 500, body |-> "internal_error", location |-> Empty ]
  ELSE IF Len(code) = 0 \/ parsed.kind = "null"
    THEN IF prov = "schwab"
           THEN [ status |-> 400, body |-> "missing_code_or_state", location |-> Empty ]
           ELSE [ status |-> 302, body |-> "state_validation_failed",
                  location |-> IF parsed.kind = "state" /\ IsNonEmptyString(parsed.obj, KeyReturnTo)
                                 THEN Member(parsed.obj, KeyReturnTo).s ELSE PopupPath ]
  ELSE [ status |-> 0, body |-> "", location |-> Empty ]

NextSigner == SgSign \/ SgAlter \/ SgCut \/ SgVerify \/ SgResign

SpecSigner == InitSigner /\ [][NextSigner]_vars

(* ---------------------------------------------------------------------- *)
(* Properties of the state signer (SpecSigner)                             *)
(* ---------------------------------------------------------------------- *)

\* the input createSignedState was given, as read back from the parsed payload
Recovered(prov, parsed) ==
  StringMember(parsed.obj, IF prov = "schwab" THEN KeyUserSub ELSE KeyReturnTo)

\* C4: round-trip law.  Whatever valid input createSignedState is given (the
\* Tasty return_to may be the empty string), parseSignedState of the token it
\* returns, under the same secret, yields the payload (not null) and the
\* payload carries that input.
C4_RoundTripLaw ==
  (sg.pc = "verified" /\ sg.how = "none" /\ sg.with = sg.secret)
    => (sg.result.kind = "state" /\ Recovered(provider, sg.result) = sg.input)

\* C5: a token whose signature segment differs from the issued one in exactly
\* one character is never accepted: parseSignedState returns null.
C5_AlteredSignatureAbsent ==
  (sg.pc = "verified" /\ sg.how = "alter") => sg.result.kind = "null"

\* a same-length alteration of the last signature character, verified under the signing secret
C5_Witness ==
  /\ sg.pc = "verified" /\ sg.how = "alter" /\ sg.pos = DigestHexLen
  /\ sg.with = sg.secret
  /\ Utf8Length(sg.presented) = Utf8Length(sg.token)
  /\ sg.result.kind = "null"

C16_CallbackRedirects ==
  \A r \in Invocations :
    (r.route = "callback" /\ r.pc = "done")
      => /\ r.status = 302
         /\ (r.body = "oauth_connected") = (r.writes = 1)

\* a status request that got to getConnectionStatus has responded
StatusAnswered(r) ==
  /\ r.route = "status" /\ r.pc = "done"
  /\ provider = "schwab" => r.actor # Empty

\* C17: a status request that got to getConnectionStatus is answered with 200
\* and a connected flag.  The flag is true exactly when getValidAccessToken
\* returned a token: the stored one with no token request, or the one of a
\* token request that succeeded and was saved.  When the token request failed
\* (getValidAccessToken threw) the answer is connected false with a reason;
\* when it returned null the answer is connected false and nothing was requested.
C17_StatusNeverRaises ==
  \A r \in Invocations :
    StatusAnswered(r)
      => /\ r.status = 200
         /\ r.body \in { "connected_true", "connected_false", "status_error" }
         /\ (r.body = "connected_true") = (Len(r.result) > 0)
         /\ r.body = "connected_true"
              => \/ r.calls = 0 /\ r.writes = 0 /\ r.result = r.stored.accessToken
                 \/ /\ r.calls = 1 /\ r.writes = 1 /\ ~TokenRequestFails(r.payload)
                    /\ r.result = r.payload.access_token
         /\ (r.body = "status_error") = (r.calls = 1 /\ TokenRequestFails(r.payload))
         /\ r.body = "status_error" => r.writes = 0
         /\ r.body = "connected_false"
              => /\ r.calls = 0 /\ r.writes = 0
                 /\ ~r.stored.found \/ Len(r.stored.refreshToken) = 0
                      \/ Len(r.stored.accessToken) = 0

\* a status request on an expired record whose refresh was refused: 200, not connected
C17_Witness ==
  /\ StatusAnswered(last)
  /\ last.status = 200 /\ last.body = "status_error"
  /\ last.stored.found /\ Len(last.stored.refreshToken) > 0
  /\ last.calls = 1 /\ last.payload.status = 401

\* C18: a request to authorize, authorize-url or status that carries no valid
\* bearer token has been answered with an error at the identity check: no
\* state was signed for it, no token record read or written, no token requested.
C18_IdentityRequired ==
  \A r \in Invocations :
    (r.route \in { "authorize", "authorize-url", "status" } /\ r.actor = Empty)
      => /\ r.pc = "done" /\ r.status >= 400
         /\ r.state = Empty /\ r.stored = NoRecord
         /\ r.calls = 0 /\ r.writes = 0

\* the same for the Schwab handler, which calls getAuthenticatedUserSub first
SchwabIdentityRequired == provider = "schwab" => C18_IdentityRequired

\* C20: every token record in the parameter store, each written by a code
\* exchange or a refresh that succeeded, has a non-empty accessToken and a
\* non-empty refreshToken, whatever refresh_token the provider's responses held.
C20_RefreshTokenNeverDiscarded ==
  \A n \in DOMAIN ssmTokens :
    /\ Len(getStoredTokens(n).accessToken) > 0
    /\ Len(getStoredTokens(n).refreshToken) > 0

\* C21: a callback has requested tokens or written a record only on a code
\* and a state that verified (an issued state, unaltered, under the secret the
\* environment holds); it has written only after one token request that gave
\* tokens; and the record is under the parameter of the subject the state
\* carries, who is the signed-in user the state was signed for.
C21_CallbackInOrder ==
  \A r \in Invocations :
    r.route = "callback"
      => /\ (r.calls > 0 \/ r.writes > 0)
              => (Len(r.code) > 0 /\ r.signedWith # Empty /\ r.signedWith = r.held)
         /\ r.writes > 0
              => /\ r.calls = 1 /\ ~TokenRequestFails(r.payload)
                 /\ r.userSub \in Users /\ r.userSub = r.actor
                 /\ getStoredTokens(TokenParameterName(provider, r.userSub)) = r.tokens
                 /\ \A u \in Users \ { r.userSub } :
                      TokenParameterName(provider, u) # TokenParameterName(provider, r.userSub)

\* the same for the Schwab handler, whose state carries the verified userSub
SchwabCallbackInOrder == provider = "schwab" => C21_CallbackInOrder

\* a token endpoint answer that is a failure: no response, a status outside
\* 2xx, or a body without access_token or expires_in
FailedAnswer(payload) ==
  \/ payload.status = 0
  \/ payload.status < 200 \/ payload.status > 299
  \/ payload.access_token = Empty
  \/ payload.expires_in = 0

\* C22: the step that requests tokens (code exchange or refresh) and gets a
\* failed answer has made that one request, ends the invocation with an error
\* (in the status route: connected false) and leaves the parameter store as
\* it was; no invocation goes on after a failed answer.
C22_FailedRequestLeavesRecord ==
  [][ \A p \in Envs :
        (req[p].pc \in { "token", "refresh" } /\ Stepped(p) /\ FailedAnswer(After(p).payload))
          => /\ After(p).calls = req[p].calls + 1
             /\ After(p).writes = req[p].writes
             /\ After(p).pc = "done"
             /\ After(p).body \in { "token_request_failed", "status_error" }
             /\ After(p).route # "status" => After(p).status >= 400
             /\ ssmTokens' = ssmTokens
    ]_vars

\* a refresh that got no response: one request, an error, the record read still stored
C22_Witness ==
  /\ last.pc = "done" /\ last.route = "market-info" /\ last.body = "token_request_failed"
  /\ last.calls = 1 /\ last.payload.status = 0 /\ last.writes = 0
  /\ last.stored.found /\ Len(last.stored.refreshToken) > 0
  /\ getStoredTokens(TokenParameterName(provider, last.userSub)) = last.stored

\* C25: the status code of a response is 400 for a missing symbol or a
\* missing code, 401 where the user is not connected (no record, or no
\* refresh token in it), and 502 where the token endpoint failed (no
\* response, a failure status, a body without the fields).
C25_StatusCodes ==
  \A r \in Invocations :
    r.pc = "done"
      => /\ (r.route \in { "market-info", "rest-market-info" } /\ r.actor # Empty /\ ~r.symbol)
              => r.status = 400
         /\ (r.route = "callback" /\ Len(r.code) = 0) => r.status = 400
         /\ r.body \in { "not_connected", "authorization_expired" } /\ r.route # "rest-status"
              => r.status = 401
         /\ (r.route # "status" /\ r.calls > 0 /\ FailedAnswer(r.payload)) => r.status = 502

\* the codes the handlers give: as above, but 500 where the token endpoint
\* failed, and the Tasty callback's error redirect (302) for a missing code
StatusCodesGiven ==
  \A r \in Invocations :
    r.pc = "done"
      => /\ (r.route \in { "market-info", "rest-market-info" } /\ r.actor # Empty /\ ~r.symbol)
              => r.status = 400
         /\ (r.route = "callback" /\ Len(r.code) = 0 /\ r.body # "internal_error")
              => r.status = IF provider = "schwab" THEN 400 ELSE 302
         /\ r.body \in { "not_connected", "authorization_expired" } /\ r.route # "rest-status"
              => r.status = 401
         /\ (r.route # "status" /\ r.calls > 0 /\ FailedAnswer(r.payload)) => r.status = 500

(* ---------------------------------------------------------------------- *)
(* Two status requests of one user at the same time (SpecRace)             *)
(* ---------------------------------------------------------------------- *)

\* a provider that rotates refresh tokens: every token it grants comes with a
\* new refresh token; it may also refuse
RotatingResponses ==
  { [ NoPayload EXCEPT !.status = 401 ] }
  \cup (IF nextTok > MaxTok THEN {}
        ELSE { [ status |-> 200, access_token |-> << "a" >> \o Digits(nextTok),
                 refresh_token |-> Some(<< "r" >> \o Digits(nextTok)), expires_in |-> e ] :
               e \in ExpiresIn })

RefreshRotating(p) == RefreshWith(p, RotatingResponses)

\* getValidAccessToken behind the status route on two execution environments,
\* on the records of SpecGate, the clock stopped
NextRace ==
  \/ \E p \in Envs : StartStatus(p) \/ Read(p) \/ RefreshRotating(p) \/ SaveRefresh(p)
  \/ Deliver

SpecRace == InitGate /\ [][NextRace]_vars

\* the record stored for the user of the seeded record
RaceRecord == getStoredTokens(TokenParameterName(provider, GateUser))

\* no invocation in progress, and the provider has granted a refresh
RefreshesComplete ==
  /\ \A p \in Envs : ~Running(p)
  /\ nextTok > 1

\* C23: once the requests have completed, the record in the store is the one
\* a refresh built (its access token is one the provider granted on a refresh)
\* and its refresh token is the one the provider issued last.
C23_LatestRefreshTokenStored ==
  RefreshesComplete
    => /\ \E k \in 1..(nextTok - 1) : RaceRecord.accessToken = << "a" >> \o Digits(k)
       /\ RaceRecord.refreshToken = << "r" >> \o Digits(nextTok - 1)

\* the part that holds: the record is the result of one of the refreshes, whole
RefreshRecordWhole ==
  RefreshesComplete
    => \E k \in 1..(nextTok - 1) :
         /\ RaceRecord.accessToken = << "a" >> \o Digits(k)
         /\ RaceRecord.refreshToken = << "r" >> \o Digits(k)

(* ---------------------------------------------------------------------- *)
(* The market-info request to its response (SpecGateFair)                  *)
(* ---------------------------------------------------------------------- *)

\* getValidAccessToken's or the retry's getStoredTokens is awaited
ReadPending == \E p \in Serial : req[p].pc = "read"

\* every await of the handler settles: an invocation that is running takes its
\* next step, and its response leaves.  The last conjunct is WF_vars of the
\* Read step with its enabling condition written out (Read is enabled exactly
\* where an invocation is at "read").
SpecGateFair ==
  /\ SpecGate
  /\ WF_vars(Deliver)
  /\ WF_vars(\E p \in Serial : RefreshAny(p) \/ SaveRefresh(p) \/ DataCall(p) \/ TastyQuote(p))
  /\ ([]<>(~ReadPending) \/ []<><<\E p \in Serial : Read(p)>>_vars)

\* a step of a Schwab market-info request after its first data call answered 401
RetryStep(p) ==
  /\ provider = "schwab"
  /\ req[p].route = "market-info"
  /\ req[p].phase = 2
  /\ Stepped(p)

\* C15: in a Schwab market-info request a 401 from the first data call is
\* followed by one reading of the record, one token request and, when that
\* gives a token, one more data call whose answer ends the request: a 401 of
\* the retry is answered as 401.  No request makes more than two data calls,
\* and every market-info request comes to its response.
C15_OneRefreshOneRetry ==
  /\ [][ \A p \in Envs :
           /\ (provider = "schwab" /\ req[p].pc = "data" /\ req[p].phase = 1 /\ Stepped(p))
                => /\ After(p).dataCalls = 1 /\ After(p).calls = req[p].calls
                   /\ IF After(p).marketStatus = 401
                      THEN After(p).pc = "read" /\ After(p).phase = 2
                      ELSE After(p).pc = "done" /\ After(p).status = After(p).marketStatus
           /\ (RetryStep(p) /\ req[p].pc = "read")
                => /\ After(p).calls = req[p].calls /\ After(p).dataCalls = 1
                   /\ \/ After(p).pc = "refresh"
                      \/ After(p).pc = "done" /\ After(p).status = 401
           /\ (RetryStep(p) /\ req[p].pc = "refresh")
                => /\ After(p).calls = req[p].calls + 1 /\ After(p).dataCalls = 1
                   /\ \/ After(p).pc = "rsave"
                      \/ After(p).pc = "done" /\ After(p).status = 500
           /\ (RetryStep(p) /\ req[p].pc = "rsave")
                => /\ After(p).calls = req[p].calls /\ After(p).dataCalls = 1
                   /\ After(p).pc = "data" /\ After(p).phase = 2
                   /\ After(p).result = req[p].tokens.accessToken
           /\ (RetryStep(p) /\ req[p].pc = "data")
                => /\ After(p).calls = req[p].calls /\ After(p).dataCalls = 2
                   /\ After(p).pc = "done" /\ After(p).status = After(p).marketStatus
       ]_vars
  /\ [](\A r \in Invocations : r.dataCalls <= 2)
  /\ \A p \in Serial :
       (req[p].route = "market-info" /\ Running(p))
         ~> (last.route = "market-info" /\ last.pc = "done")

\* a market-info request whose two data calls both answered 401: one token
\* request after the first, and 401 to the caller
C15_Witness ==
  /\ provider = "schwab"
  /\ last.route = "market-info" /\ last.pc = "done"
  /\ last.phase = 2 /\ last.dataCalls = 2 /\ last.marketStatus = 401 /\ last.status = 401
  /\ last.calls = 1 /\ last.writes = 1

(* ---------------------------------------------------------------------- *)
(* Token Cache Get on chosen store contents (SpecStore)                    *)
(* ---------------------------------------------------------------------- *)

\* the four getStoredTokens of the repository
GsImpls == { "schwab", "tasty", "tasty-rest", "schwab-market-info/handler.ts" }

\* failures of the parameter store other than ParameterNotFound
StoreFaults == { "AccessDeniedException", "ThrottlingException", "InternalServerError" }

\* Values found under the parameter: none, records saveTokens wrote, text that is not JSON
StoreValues ==
  { Empty, << "{" >>, << "n", "o" >> }
    \cup { RecordText(TokenRecord(at, rt, TimeText(e))) :
             at \in { << "a", "0" >>, << "a", "1" >> }, rt \in { Empty, << "r", "0" >> },
             e \in { 30, 91 } }

\* ssmClient.send(new GetParameterCommand(...)): the result, or the error it rejects with
GetParameterCommand(present, value, fault) ==
  IF fault # "none" THEN [ error |-> fault, Value |-> Empty ]
  ELSE IF ~present THEN [ error |-> "ParameterNotFound", Value |-> Empty ]
  ELSE [ error |-> "none", Value |-> value ]

\* what getStoredTokens does with a Value: null when empty, JSON.parse otherwise
ReturnParsed(g, Value) ==
  IF Len(Value) = 0 THEN [ g EXCEPT !.pc = "done", !.outcome = "null" ]
  ELSE IF ~JsonParse(Value).ok
  THEN [ g EXCEPT !.pc = "done", !.outcome = "throws", !.thrown = "SyntaxError" ]
  ELSE [ g EXCEPT !.pc = "done", !.outcome = "record", !.tokens = ParseRecord(Value) ]

\* getStoredTokens with the catch: ParameterNotFound is null, any other error is rethrown
getStoredTokensCatching(g) ==
  IF g.result.error = "ParameterNotFound" THEN [ g EXCEPT !.pc = "done", !.outcome = "null" ]
  ELSE IF g.result.error # "none"
  THEN [ g EXCEPT !.pc = "done", !.outcome = "throws", !.thrown = g.result.error ]
  ELSE ReturnParsed(g, g.result.Value)

\* getStoredTokens of schwab-market-info/handler.ts: the send is not in a try
getStoredTokensBare(g) ==
  IF g.result.error # "none"
  THEN [ g EXCEPT !.pc = "done", !.outcome = "throws", !.thrown = g.result.error ]
  ELSE ReturnParsed(g, g.result.Value)

\* the market-info route around getValidAccessToken: 401 on null, the handler's
\* catch on a throw, and on with the request otherwise (0)
MarketInfoStatus(g) ==
  CASE g.outcome = "throws" -> 500
    [] g.outcome = "null" -> 401
    [] g.outcome = "record" /\ (Len(g.tokens.accessToken) = 0 \/ Len(g.tokens.refreshToken) = 0) -> 401
    [] OTHER -> 0

InitStore ==
  /\ provider \in Providers
  /\ Deployed
  /\ EmptyStore
  /\ sg = SgOff
  /\ up = UpOff
  /\ cr = CrOff
  /\ qw = QwOff
  /\ gs \in { [ GsOff EXCEPT !.pc = "input", !.impl = i, !.present = pr, !.value = v, !.fault = f ] :
                i \in GsImpls, pr \in BOOLEAN, v \in StoreValues, f \in StoreFaults \cup { "none" } }
  /\ ~gs.present => gs.value = Empty
  /\ (gs.impl \in { "schwab", "schwab-market-info/handler.ts" }) = (provider = "schwab")

\* the GetParameter call
GsSend ==
  /\ gs.pc = "input"
  /\ gs' = [ gs EXCEPT !.pc = "sent", !.result = GetParameterCommand(gs.present, gs.value, gs.fault) ]
  /\ UNCHANGED << provider, now, ssmSecret, ssmTokens, cachedCredentials, req, last, issued,
                  accepted, nextTok, mintedFor, completed, sg, up, cr, qw >>

\* the rest of getStoredTokens, and what /market-info answers on it
GsReturn ==
  /\ gs.pc = "sent"
  /\ \E g \in { IF gs.impl = "schwab-market-info/handler.ts" THEN getStoredTokensBare(gs)
                ELSE getStoredTokensCatching(gs) } :
       gs' = [ g EXCEPT !.status = MarketInfoStatus(g) ]
  /\ UNCHANGED << provider, now, ssmSecret, ssmTokens, cachedCredentials, req, last, issued,
                  accepted, nextTok, mintedFor, completed, sg, up, cr, qw >>

NextStore == GsSend \/ GsReturn

SpecStore == InitStore /\ [][NextStore]_vars

\* C14: once getStoredTokens has returned, a ParameterNotFound error or an empty
\* Value has given null (and so 401 from market-info), and any other error
\* of the parameter store has been thrown on as it was
C14_NotFoundIsAbsent ==
  gs.pc = "done" =>
    /\ (gs.result.error = "ParameterNotFound"
         \/ (gs.result.error = "none" /\ Len(gs.result.Value) = 0))
       => (gs.outcome = "null" /\ gs.status = 401)
    /\ gs.result.error \in StoreFaults => (gs.outcome = "throws" /\ gs.thrown = gs.result.error)

\* the same for the three getStoredTokens that catch
CatchingNotFoundIsAbsent ==
  gs.impl # "schwab-market-info/handler.ts" => C14_NotFoundIsAbsent


(* ---------------------------------------------------------------------- *)
(* The last ticker of a signed-in user (SpecPrefs)                         *)
(* ---------------------------------------------------------------------- *)

\* the saveLastTicker calls a behaviour begins
MaxSaves == 3

\* result.data of UserPreference.list({ filter: { pageKey: { eq: pageKey } } })
Listed(pageKey) == { r \in up.records : r.pageKey = pageKey }

\* findPreference: result.data[0] ?? null.  The list has no sort key: data[0]
\* is any of the records listed; 0 is null.
findPreference(pageKey) ==
  IF Listed(pageKey) = {} THEN { 0 } ELSE { r.id : r \in Listed(pageKey) }

\* UserPreference.create({ pageKey, lastTicker }): a record with a new id
Created(records, pageKey, lastTicker) ==
  records \cup { [ id |-> Cardinality(records) + 1, pageKey |-> pageKey, lastTicker |-> lastTicker ] }

\* UserPreference.update({ id, lastTicker })
Updated(records, id, lastTicker) ==
  { IF r.id = id THEN [ r EXCEPT !.lastTicker = lastTicker ] ELSE r : r \in records }

InitPrefs ==
  /\ provider = "schwab"
  /\ Deployed
  /\ EmptyStore
  /\ sg = SgOff
  /\ gs = GsOff
  /\ up = [ UpOff EXCEPT !.pc = "on" ]
  /\ cr = CrOff
  /\ qw = QwOff

\* a page's handleSubmit calls saveLastTicker(pageKey, lastTicker)
UpStartSave(c) ==
  /\ up.call[c].pc = "idle"
  /\ up.saves < MaxSaves
  /\ \E k \in PageKeys, t \in Tickers :
       up' = [ up EXCEPT !.call[c] = [ IdleCall EXCEPT !.pc = "find", !.pageKey = k, !.lastTicker = t ],
                         !.saves = @ + 1,
                         !.overlapped = (@ \/ (\E d \in Callers : up.call[d].pc # "idle")),
                         !.loaded = NotLoaded ]
  /\ UNCHANGED << provider, now, ssmSecret, ssmTokens, cachedCredentials, req, last, issued,
                  accepted, nextTok, mintedFor, completed, sg, gs, cr, qw >>

\* saveLastTicker: await findPreference(pageKey)
UpFind(c) ==
  /\ up.call[c].pc = "find"
  /\ \E id \in findPreference(up.call[c].pageKey) :
       up' = [ up EXCEPT !.call[c].pc = "write", !.call[c].found = id ]
  /\ UNCHANGED << provider, now, ssmSecret, ssmTokens, cachedCredentials, req, last, issued,
                  accepted, nextTok, mintedFor, completed, sg, gs, cr, qw >>

\* saveLastTicker: create when no preference was found, update of the one found otherwise
UpWrite(c) ==
  /\ up.call[c].pc = "write"
  /\ LET k == up.call[c].pageKey
         t == up.call[c].lastTicker
     IN up' = [ up EXCEPT !.records = IF up.call[c].found = 0 THEN Created(@, k, t)
                                      ELSE Updated(@, up.call[c].found, t),
                          !.call[c] = IdleCall,
                          !.lastSaved[k] = t ]
  /\ UNCHANGED << provider, now, ssmSecret, ssmTokens, cachedCredentials, req, last, issued,
                  accepted, nextTok, mintedFor, completed, sg, gs, cr, qw >>

\* loadLastTicker(pageKey) once the saves begun have completed
UpLoad(c) ==
  /\ \A d \in Callers : up.call[d].pc = "idle"
  /\ ~up.loaded.valid
  /\ \E k \in PageKeys : \E id \in findPreference(k) :
       up' = [ up EXCEPT !.loaded =
                 [ valid |-> TRUE, pageKey |-> k,
                   lastTicker |-> IF id = 0 THEN ""
                                  ELSE (CHOOSE r \in up.records : r.id = id).lastTicker ] ]
  /\ UNCHANGED << provider, now, ssmSecret, ssmTokens, cachedCredentials, req, last, issued,
                  accepted, nextTok, mintedFor, completed, sg, gs, cr, qw >>

NextPrefs == \E c \in Callers : UpStartSave(c) \/ UpFind(c) \/ UpWrite(c) \/ UpLoad(c)

SpecPrefs == InitPrefs /\ [][NextPrefs]_vars

\* C19: the user has at most one UserPreference record for a pageKey, and what
\* loadLastTicker(pageKey) returns once the saves have completed is the ticker
\* of the save that completed last ("" when there was none).
C19_LastTickerKept ==
  /\ \A k \in PageKeys : Cardinality(Listed(k)) <= 1
  /\ up.loaded.valid => up.loaded.lastTicker = up.lastSaved[up.loaded.pageKey]

\* the same when no save began while another was in progress
SerialLastTickerKept == ~up.overlapped => C19_LastTickerKept


(***************************************************************************)
(* The credential cache of one process over a failing store (SpecCreds)    *)
(***************************************************************************)

\* values written to a credential parameter, and cold starts, that are followed
MaxPuts == 2
MaxProcs == 2

CredentialParameters ==
  IF provider = "schwab" THEN SchwabCredentialParameters ELSE TastyCredentialParameters

\* what GetParameter finds: a value, no parameter, an empty Value, or another failure of the call
Stored(v) == [ st |-> "stored", v |-> v ]
ParameterNotFound == [ st |-> "absent", v |-> 0 ]
BlankValue == [ st |-> "blank", v |-> 0 ]
AccessDenied == [ st |-> "denied", v |-> 0 ]

\* the status line of the token endpoint's answer (0: no HTTP response)
TokenStatuses == { 0, 200, 401, 500 }

\* the stored record as getValidAccessToken finds it
RecordStates == { "absent", "fresh", "due" }

\* calls of getSchwabCredentials / getTastyCredentials a request makes when none fails
CredentialCalls(route, record) ==
  CASE route = "authorize" -> IF provider = "schwab" THEN 2 ELSE 1
    [] route = "callback" -> 2
    [] route = "status" -> IF record = "due" THEN 1 ELSE 0

\* getParameterValue rejects: the Error thrown for what the store holds under name
ParameterError(name, found) ==
  CASE found.st = "absent" ->
         IF provider = "tasty"
           THEN [ text |-> "Missing SSM parameter: ", name |-> name, status |-> 0 ]
           ELSE [ text |-> "ParameterNotFound", name |-> name, status |-> 0 ]
    [] found.st = "blank" ->
         [ text |-> "Missing SSM parameter value for: ", name |-> name, status |-> 0 ]
    [] OTHER -> [ text |-> "AccessDeniedException", name |-> name, status |-> 0 ]

\* requestToken throws on an answer that is no success
TokenError(status) ==
  IF provider = "schwab"
    THEN [ text |-> "Schwab token request failed.", name |-> "", status |-> 0 ]
    ELSE IF status = 0
      THEN [ text |-> "Tasty token request failed (no HTTP response)", name |-> "", status |-> 0 ]
      ELSE [ text |-> "Tasty token request failed (status ", name |-> "", status |-> status ]

\* if (cachedCredentials) return cachedCredentials
\* variant: the cache is never consulted
CacheNeverHit(c) == FALSE

CacheHit(c) == c.cached.valid

\* the catch of getConnectionStatus: message.includes(...) in order
getConnectionStatusReason(message) ==
  IF provider = "schwab" THEN "unexpected_error"
  ELSE IF message.text = "Missing SSM parameter: "
            /\ message.name = "/amplify/tasty/credentials/client-id" THEN "missing_client_id"
  ELSE IF message.text = "Missing SSM parameter: "
            /\ message.name = "/amplify/tasty/credentials/client-secret" THEN "missing_client_secret"
  ELSE IF message.text = "Missing SSM parameter: "
            /\ message.name = "/amplify/tasty/credentials/session-secret" THEN "missing_session_secret"
  ELSE IF message.text = "Tasty token request failed (status " /\ message.status = 401
    THEN "invalid_client_or_refresh_token"
  ELSE "unexpected_error"

Response(status) == [ kind |-> "response", status |-> status, connected |-> FALSE, reason |-> "" ]
Rejected == [ kind |-> "rejected", status |-> 0, connected |-> FALSE, reason |-> "" ]

\* what the request has thrown, once its calls of getCredentials are over
Thrown(c) ==
  IF c.err # NoError THEN c.err
  ELSE IF c.route # "authorize" /\ c.left = 0 /\ c.gets > 0 /\ c.answer # 200
    THEN TokenError(c.answer)
  ELSE NoError

\* the handler's result for the request of c
HandlerResult(c) ==
  CASE c.route = "status" ->
         IF Thrown(c) # NoError
           THEN [ kind |-> "response", status |-> 200, connected |-> FALSE,
                  reason |-> getConnectionStatusReason(Thrown(c)) ]
           ELSE [ kind |-> "response", status |-> 200, connected |-> c.record # "absent",
                  reason |-> "" ]
    [] c.route = "authorize" ->
         IF Thrown(c) = NoError THEN Response(302)
         ELSE IF provider = "tasty" THEN Rejected ELSE Response(500)
    [] c.route = "callback" ->
         IF Thrown(c) # NoError THEN Response(500)
         ELSE IF provider = "tasty" THEN Response(302) ELSE Response(200)

InitCreds ==
  /\ provider \in { "schwab", "tasty" }
  /\ Deployed
  /\ EmptyStore
  /\ sg = SgOff
  /\ gs = GsOff
  /\ up = UpOff
  /\ qw = QwOff
  /\ cr = [ CrOff EXCEPT !.pc = "idle", !.proc = 1, !.puts = 1,
                         !.store = [ n \in CredentialParameters |-> Stored(1) ] ]

\* the process between two requests
Between(c) ==
  [ c EXCEPT !.pc = "idle", !.route = "", !.record = "", !.answer = 0, !.left = 0, !.gets = 0,
             !.reads = 0, !.got = << >>, !.err = NoError, !.outcome = NoOutcome ]

CrFrame ==
  UNCHANGED << provider, now, ssmSecret, ssmTokens, cachedCredentials, req, last, issued,
               accepted, nextTok, mintedFor, completed, sg, gs, up, qw >>

\* a request arrives at the process
CrStart(route, record, answer) ==
  /\ cr.pc \in { "idle", "done" }
  /\ route # "status" => record = "absent"
  /\ (route = "authorize" \/ (route = "status" /\ record # "due")) => answer = 200
  /\ cr' = [ cr EXCEPT !.pc = IF CredentialCalls(route, record) = 0 THEN "finish" ELSE "creds",
                       !.route = route, !.record = record, !.answer = answer,
                       !.left = CredentialCalls(route, record), !.gets = 0, !.reads = 0,
                       !.got = << >>, !.err = NoError, !.outcome = NoOutcome ]
  /\ CrFrame

\* one call of getSchwabCredentials / getTastyCredentials
CrGet ==
  /\ cr.pc = "creds"
  /\ IF CacheHit(cr)
       THEN cr' = [ cr EXCEPT !.gets = @ + 1, !.reads = 0, !.got = cr.cached.values,
                              !.left = @ - 1, !.pc = IF cr.left = 1 THEN "finish" ELSE "creds" ]
       ELSE LET failing == { n \in CredentialParameters : cr.store[n].st # "stored" }
                values == [ n \in CredentialParameters |-> cr.store[n].v ]
            IN IF failing = {}
                 THEN cr' = [ cr EXCEPT !.gets = @ + 1, !.reads = Cardinality(CredentialParameters),
                                        !.cached = [ valid |-> TRUE, values |-> values ],
                                        !.got = values, !.left = @ - 1,
                                        !.pc = IF cr.left = 1 THEN "finish" ELSE "creds" ]
                 ELSE \E n \in failing :
                        cr' = [ cr EXCEPT !.gets = @ + 1,
                                          !.reads = Cardinality(CredentialParameters),
                                          !.err = ParameterError(n, cr.store[n]),
                                          !.pc = "finish" ]
  /\ CrFrame

\* the handler's promise settles
CrFinish ==
  /\ cr.pc = "finish"
  /\ cr' = [ cr EXCEPT !.pc = "done", !.outcome = HandlerResult(cr) ]
  /\ CrFrame

\* an operator writes, empties, deletes or locks a credential parameter
CrPut(name, found) ==
  /\ cr.pc \in { "idle", "done" }
  /\ cr.store[name] # found
  /\ found.st = "stored" => found.v = cr.puts + 1 /\ cr.puts < MaxPuts
  /\ cr' = [ Between(cr) EXCEPT !.store[name] = found,
                                !.puts = IF found.st = "stored" THEN @ + 1 ELSE @ ]
  /\ CrFrame

\* the execution environment is replaced by a new one
CrRecycle ==
  /\ cr.pc \in { "idle", "done" }
  /\ cr.proc < MaxProcs
  /\ cr' = [ Between(cr) EXCEPT !.proc = @ + 1, !.cached = NotCached ]
  /\ CrFrame

NextCreds ==
  \/ \E route \in { "authorize", "callback", "status" }, record \in RecordStates,
        answer \in TokenStatuses : CrStart(route, record, answer)
  \/ CrGet
  \/ CrFinish
  \/ \E name \in CredentialParameters,
        found \in { Stored(v) : v \in 1..MaxPuts } \cup { ParameterNotFound, BlankValue, AccessDenied } :
          CrPut(name, found)
  \/ CrRecycle

SpecCreds == InitCreds /\ [][NextCreds]_vars

\* C24: every request ends in a response object with a statusCode; the handler's promise
\* never rejects, on the authorize route as on the others, whatever the secret store does
C24_HandlerNeverRejects ==
  cr.pc = "done" => cr.outcome.kind = "response" /\ cr.outcome.status >= 200

\* the handler of /schwab/* awaits inside its try
SchwabHandlerNeverRejects == provider = "schwab" => C24_HandlerNeverRejects

\* only /tasty/authorize rejects, and only where the credentials failed to load
TastyRejectsOnlyAuthorize ==
  (cr.pc = "done" /\ cr.outcome.kind # "response")
    => provider = "tasty" /\ cr.route = "authorize" /\ cr.err # NoError


\* the failures the status route is to tell apart: a credential parameter that does not
\* exist, and a refresh the token endpoint answers with 401
KnownFailure(c) ==
  \/ c.err # NoError /\ c.store[c.err.name].st = "absent"
  \/ c.err = NoError /\ Thrown(c) # NoError /\ c.answer = 401

KnownMessages ==
  { ParameterError(n, ParameterNotFound) : n \in CredentialParameters } \cup { TokenError(401) }

\* C26: a status request that fails answers connected false with one reason; a missing
\* credential parameter and a 401 of the token endpoint get a reason of their own, each
\* different from the others' and from unexpected_error
C26_StableReasons ==
  (cr.pc = "done" /\ cr.route = "status" /\ Thrown(cr) # NoError)
    => /\ cr.outcome.kind = "response"
       /\ ~cr.outcome.connected
       /\ cr.outcome.reason # ""
       /\ KnownFailure(cr)
            => /\ cr.outcome.reason # "unexpected_error"
               /\ \A m \in KnownMessages \ { Thrown(cr) } :
                    getConnectionStatusReason(m) # cr.outcome.reason

\* getConnectionStatus of the Tasty function tells them apart
TastyStableReasons == provider = "tasty" => C26_StableReasons


\* C27: once a load has succeeded, every later call of getSchwabCredentials /
\* getTastyCredentials in the same process returns the cached values and sends no
\* GetParameter command, and no step of that process changes the cached values; a call
\* that finds no cache reads every parameter, and caches nothing where a read fails
C27_CredentialsReadOnce ==
  [][ LET get == cr.pc = "creds" /\ cr'.gets = cr.gets + 1
      IN /\ (cr.cached.valid /\ cr'.proc = cr.proc) => cr'.cached = cr.cached
         /\ (get /\ cr.cached.valid)
              => cr'.reads = 0 /\ cr'.got = cr.cached.values /\ cr'.err = NoError
         /\ (get /\ ~cr.cached.valid)
              => /\ cr'.reads = Cardinality(CredentialParameters)
                 /\ cr'.err # NoError => ~cr'.cached.valid
                 /\ cr'.err = NoError => cr'.cached = [ valid |-> TRUE, values |-> cr'.got ]
    ]_vars

\* a call answered from the cache after a parameter was changed in the store
C27_Witness ==
  /\ cr.pc = "done" /\ cr.gets > 0 /\ cr.reads = 0
  /\ cr.cached.valid /\ cr.got = cr.cached.values
  /\ \E n \in CredentialParameters : cr.store[n] # Stored(cr.cached.values[n])


(***************************************************************************)
(* The callback's answer to a state that fails verification (SpecSigner)   *)
(***************************************************************************)

ResignedStateAbsent ==
  (sg.pc = "verified" /\ sg.how = "resigned") => sg.result.kind = "null"


(***************************************************************************)
(* A Tasty authorization started without return_to (Spec)                  *)
(***************************************************************************)

\* the returnTo the payload of an issued state carries
IssuedReturnTo(tok) == StringMember(JsonParse(fromBase64Url(PayloadOnly(tok))).obj, KeyReturnTo)

\* a /tasty/callback that has answered a code and a state issued under the secret it holds
AnsweredIssued(r) ==
  /\ provider = "tasty" /\ r.route = "callback" /\ r.pc = "done"
  /\ Len(r.code) > 0 /\ r.state \in IssuedTokens /\ r.signedWith = r.held

\* C29: a callback that carries a code and a state issued by /tasty/authorize without
\* return_to passes the state test and requests the tokens for the code
C29_ReturnToOptional ==
  \A r \in Invocations :
    (AnsweredIssued(r) /\ IssuedReturnTo(r.state) = Empty)
      => r.body # "state_validation_failed" /\ r.calls = 1

\* with a return_to the same callback goes on to the exchange
ReturnToGivenAccepted ==
  \A r \in Invocations :
    (AnsweredIssued(r) /\ IssuedReturnTo(r.state) # Empty)
      => r.body # "state_validation_failed" /\ r.calls = 1


(***************************************************************************)
(* One wait of getMarketInfo for a Tasty quote (SpecQuote, SpecQuoteFair)  *)
(***************************************************************************)

\* setTimeout(..., 15000), in seconds
QuoteTimeout == 15

\* event batches the streamer emits during one wait
MaxEvents == 2

\* extractQuoteData: the keys whose value must be a number
numericKeys == { "lastPrice", "last", "price", "bidPrice", "bid", "askPrice", "ask" }

\* events of the streamer: whether the event is an object, and its keys of type number
NotAnObject == [ object |-> FALSE, numbers |-> {} ]
StreamerEvents ==
  { NotAnObject,
    [ object |-> TRUE, numbers |-> {} ],                        \* prices as strings
    [ object |-> TRUE, numbers |-> { "volume" } ],
    [ object |-> TRUE, numbers |-> { "bidPrice", "askPrice" } ],
    [ object |-> TRUE, numbers |-> { "price", "volume" } ] }

EventBatches ==
  { << e >> : e \in StreamerEvents } \cup { << e, f >> : e, f \in StreamerEvents }

\* extractQuoteData(event) is not null
extractQuoteData(event) == event.object /\ event.numbers \cap numericKeys # {}

\* if (settled) return
\* variant: finish without the test of settled
SettledIgnored(q) == FALSE

AlreadySettled(q) == q.settled

\* finish(callback)
finish(q, callback) ==
  IF AlreadySettled(q) THEN q
  ELSE [ q EXCEPT !.settled = TRUE,
                  !.timer = IF @ = "armed" THEN "cleared" ELSE @,
                  !.listener = FALSE,
                  !.cleanups = @ + 1,
                  !.cleanup = "running",
                  !.decision = callback ]

Resolve(batch, index) == [ kind |-> "resolve", why |-> "quote", batch |-> batch, index |-> index ]
Reject(why) == [ kind |-> "reject", why |-> why, batch |-> 0, index |-> 0 ]

\* history: the first of quote event, connect failure and timeout
Occurred(q, what) == [ q EXCEPT !.first = IF @ = NoDecision THEN what ELSE @ ]

\* the promise's executor has run: timer armed, handler registered, connect begun
InitQuote ==
  /\ provider = "tasty"
  /\ Deployed
  /\ EmptyStore
  /\ sg = SgOff
  /\ gs = GsOff
  /\ up = UpOff
  /\ cr = CrOff
  /\ qw = [ QwOff EXCEPT !.pc = "on", !.timer = "armed", !.listener = TRUE,
                          !.connect = "pending" ]

QwFrame ==
  UNCHANGED << provider, now, ssmSecret, ssmTokens, cachedCredentials, req, last, issued,
               accepted, nextTok, mintedFor, completed, sg, gs, up, cr >>

\* the streamer emits a batch of events; handler runs if it is still registered
QwEvents(events) ==
  /\ qw.pc = "on"
  /\ qw.delivered < MaxEvents
  /\ LET quotes == { i \in 1..Len(events) : extractQuoteData(events[i]) }
         n == qw.delivered + 1
         q == [ qw EXCEPT !.delivered = n ]
     IN IF quotes = {} THEN qw' = q
        ELSE LET index == CHOOSE i \in quotes : \A j \in quotes : i <= j
                 q1 == Occurred(q, Resolve(n, index))
             IN qw' = IF qw.listener THEN finish(q1, Resolve(n, index)) ELSE q1
  /\ QwFrame

\* await quoteStreamer.connect(); quoteStreamer.subscribe([symbol]): done, or one of them throws
QwConnect(how) ==
  /\ qw.pc = "on"
  /\ qw.connect = "pending"
  /\ qw' = IF how = "subscribed" THEN [ qw EXCEPT !.connect = how ]
           ELSE finish(Occurred([ qw EXCEPT !.connect = how ], Reject("connect")),
                       Reject("connect"))
  /\ QwFrame

\* a second passes
QwTick ==
  /\ qw.pc = "on"
  /\ qw.settles = 0
  /\ qw.elapsed < QuoteTimeout
  /\ qw' = [ qw EXCEPT !.elapsed = @ + 1 ]
  /\ QwFrame

\* the timeout's callback runs
QwTimeout ==
  /\ qw.pc = "on"
  /\ qw.timer = "armed"
  /\ qw.elapsed = QuoteTimeout
  /\ qw' = finish(Occurred([ qw EXCEPT !.timer = "fired" ], Reject("timeout")),
                  Reject("timeout"))
  /\ QwFrame

\* cleanup() is over (unsubscribe and disconnect done or failed): .finally(callback)
QwCleanupDone ==
  /\ qw.pc = "on"
  /\ qw.cleanup = "running"
  /\ qw' = [ qw EXCEPT !.cleanup = "done",
                       !.settles = @ + 1,
                       !.result = IF @ = NoDecision THEN qw.decision ELSE @ ]
  /\ QwFrame

NextQuote ==
  \/ \E events \in EventBatches : QwEvents(events)
  \/ \E how \in { "subscribed", "connect-failed", "subscribe-failed" } : QwConnect(how)
  \/ QwTick
  \/ QwTimeout
  \/ QwCleanupDone

SpecQuote == InitQuote /\ [][NextQuote]_vars

\* the event loop runs the timer, and disconnect() comes to an end
SpecQuoteFair ==
  SpecQuote /\ WF_vars(QwTick) /\ WF_vars(QwTimeout) /\ WF_vars(QwCleanupDone)

\* resolve / reject is called at most once, after the listener was removed, the timer
\* cleared and the one cleanup was over, with the outcome of what occurred first
QuoteSettledOnce ==
  /\ qw.settles <= 1 /\ qw.cleanups <= 1
  /\ qw.settled => qw.decision = qw.first /\ qw.first # NoDecision
  /\ qw.settles = 1
       => /\ qw.result = qw.first
          /\ ~qw.listener /\ qw.timer # "armed"
          /\ qw.cleanups = 1 /\ qw.cleanup = "done"

\* what occurs after the first finish changes nothing
QuoteDecisionKept ==
  (qw.settled => qw'.decision = qw.decision /\ qw'.cleanups = qw.cleanups /\ ~qw'.listener
                   /\ qw'.timer = qw.timer)
  /\ (qw.settles = 1 => qw'.settles = 1 /\ qw'.result = qw.result)

\* C30: the wait settles exactly once under every interleaving of quote events, connect
\* failure and the timer; what occurs first decides (the first event with a numeric quote
\* field resolves, a connect failure or the timeout rejects), what comes later is ignored,
\* and the listener is removed, the timer cleared and cleanup run once before it settles
C30_QuoteWaitSettlesOnce ==
  /\ []QuoteSettledOnce
  /\ [][QuoteDecisionKept]_vars
  /\ <>(qw.settles = 1)

\* the timeout rejected, and the connect failed after that
C30_Witness ==
  /\ qw.settles = 1 /\ qw.result = Reject("timeout")
  /\ qw.connect = "connect-failed"
  /\ qw.delivered = MaxEvents

====
